---- MODULE Spec2Model ----
(***************************************************************************)
(* The synchronous-to-asynchronous bridging layer of                       *)
(* sqlalchemy-firebird-async: the AsyncCursor / AsyncConnection wrappers   *)
(* of firebird_driver.py ("fd") and fdb.py ("fdb"), the _exec bridge, the  *)
(* worker pools that run the blocking driver calls, and the shutdown       *)
(* registry _zombies.                                                      *)
(*                                                                         *)
(* A wrapper call that goes through the bridge is split at its suspension  *)
(* point: the handler's entry submits a blocking call, a pool (or the      *)
(* calling thread) starts and finishes it, and the handler's remaining     *)
(* code runs when the caller resumes.                                      *)
(***************************************************************************)
EXTENDS Integers, Sequences, FiniteSets, TLC

\* ---------------------------------------------------------------- bounds

\* wrapper calls issued in one behaviour of Spec (callers may overlap)
MaxCalls == 2
\* wrapper calls issued in one behaviour of SpecSeq (one call at a time)
MaxSeqCalls == 3
\* wrapper calls issued in one behaviour of SpecRow (one call at a time)
MaxRowCalls == 3
\* calls issued in all by the callers of SpecOrder
MaxOrderCalls == 4
\* fetches issued in one behaviour of SpecBuf
MaxBufCalls == 3
\* rows in an installed buffer
MaxRows == 2
\* parameter sets handed to one do_executemany
MaxParams == 3
\* pieces a message is put together from
MaxPieces == 2
\* calls issued in one behaviour of SpecConnect, the connect included
MaxConnectCalls == 3
MaxInstallCalls == 2

Tasks == {"t1", "t2"}
Wrappers == {"conn", "cur"}
None == "None"

\* the blocking driver's handles, one per wrapper
H(w) == IF w = "conn" THEN "hConn" ELSE "hCur"

\* exceptions the blocking driver may raise, and the value it returns
DriverErrors == {"e1", "e2"}
Value == "v1"
\* row counts the blocking cursor may report
RowCounts == {0, 2}
\* batch sizes the blocking cursor may be configured with
ArraySizes == {1}
\* the same, for the cursors of SpecBuf
BufArraySizes == {1, 2}
\* rows the dialect may install, and the lists of them
RowValues == {"r1", "r2"}
RowLists == UNION {[1..n -> RowValues] : n \in 0..MaxRows}
\* what one INSERT ... RETURNING may return, and the descriptions the blocking
\* cursor may show for it
BatchRowLists == {<<>>, <<"r1">>, <<"r2">>}
Descriptions == {"d1", "d2"}

Ret(v) == <<"ret", v>>
Raise(e) == <<"raise", e>>
NotCalled == <<"none", None>>
IsRaise(o) == o[1] = "raise"
BlockingOutcomes == {Ret(Value)} \cup {Raise(e) : e \in DriverErrors}

\* ------------------------------------------------------- statement text

\* a statement is a tuple of one-character strings
Lower ==
  << "a", "b", "c", "d", "e", "f", "g", "h", "i", "j", "k", "l", "m",
     "n", "o", "p", "q", "r", "s", "t", "u", "v", "w", "x", "y", "z" >>
Upper ==
  << "A", "B", "C", "D", "E", "F", "G", "H", "I", "J", "K", "L", "M",
     "N", "O", "P", "Q", "R", "S", "T", "U", "V", "W", "X", "Y", "Z" >>
Whitespace == {" ", "\t", "\n"}

\* str.upper(), one character
UpperChar(c) ==
  IF \E i \in 1..Len(Lower) : Lower[i] = c
  THEN Upper[CHOOSE i \in 1..Len(Lower) : Lower[i] = c]
  ELSE c

\* str.upper()
StrUpper(s) == [i \in 1..Len(s) |-> UpperChar(s[i])]

\* str.strip(): drops leading and trailing whitespace
RECURSIVE LStrip(_)
LStrip(s) ==
  IF s # <<>> /\ Head(s) \in Whitespace THEN LStrip(Tail(s)) ELSE s

RECURSIVE RStrip(_)
RStrip(s) ==
  IF s # <<>> /\ s[Len(s)] \in Whitespace
  THEN RStrip(SubSeq(s, 1, Len(s) - 1))
  ELSE s

StrStrip(s) == RStrip(LStrip(s))

\* str.startswith(prefix)
StartsWith(s, prefix) ==
  /\ Len(s) >= Len(prefix)
  /\ SubSeq(s, 1, Len(prefix)) = prefix

SELECT_KW == <<"S", "E", "L", "E", "C", "T">>
WITH_KW == <<"W", "I", "T", "H">>

\* a test that finds the keyword anywhere in the statement
IsSelectLike_anywhere(operation) ==
  LET op_upper == StrUpper(StrStrip(operation))
  IN  \E k \in 0..Len(op_upper) :
        \/ StartsWith(SubSeq(op_upper, k + 1, Len(op_upper)), SELECT_KW)
        \/ StartsWith(SubSeq(op_upper, k + 1, Len(op_upper)), WITH_KW)

\* firebird_driver.py AsyncCursor.execute, lines 40-41: the statement is a
\* read-only query
IsSelectLike(operation) ==
  LET op_upper == StrUpper(StrStrip(operation))
  IN  StartsWith(op_upper, SELECT_KW) \/ StartsWith(op_upper, WITH_KW)

\* statements the callers execute
StmtInsert == <<"i", "n", "s", "e", "r", "t">>
StmtSelect == <<"s", "e", "l", "e", "c", "t", " ", "x">>
StmtSelectMixed == <<" ", "\n", "S", "e", "L", "e", "c", "T", " ", "x">>
StmtWith == <<"\t", "w", "i", "t", "H", " ", "x">>
StmtSelec == <<"s", "e", "l", "e", "c">>
StmtInsertSelect == <<"i", "n", "s", "e", "r", "t", " ", "s", "e", "l", "e", "c", "t">>
StmtUpdateWith == <<"u", "x", " ", "W", "I", "T", "H">>
StmtWit == <<" ", "W", "i", "t", " ", "h">>

Statements ==
  { StmtInsert, StmtSelect, StmtSelectMixed, StmtWith, StmtSelec,
    StmtInsertSelect, StmtUpdateWith, StmtWit }

NoArg == <<>>

\* AsyncCursor._buffered_rows: None, or a list of rows
NoBuffer == <<>>
Buffer(rows) == <<rows>>
\* what a fetch from the buffer returns: a list of rows
Rows(rows) == <<"rows", rows>>

\* Python's s[i], for i within -len(s) .. len(s)-1
PyIndexOk(s, i) == -Len(s) <= i /\ i < Len(s)

\* an index that counts from the end of the list
PyIndex_from_end(s, i) == s[Len(s) - (IF i < 0 THEN i + Len(s) ELSE i)]

PyIndex(s, i) == s[(IF i < 0 THEN i + Len(s) ELSE i) + 1]

\* Python's s[a:b]: a negative bound counts from the end, bounds are clamped
PyBound(s, x) ==
  IF x < 0
  THEN (IF x + Len(s) < 0 THEN 0 ELSE x + Len(s))
  ELSE (IF x > Len(s) THEN Len(s) ELSE x)

\* a slice that takes the element at its upper bound too
PySlice_inclusive(s, a, b) ==
  IF PyBound(s, a) < Len(s)
  THEN SubSeq(s, PyBound(s, a) + 1,
              IF PyBound(s, b) < Len(s) THEN PyBound(s, b) + 1 ELSE Len(s))
  ELSE <<>>

PySlice(s, a, b) ==
  IF PyBound(s, a) < PyBound(s, b)
  THEN SubSeq(s, PyBound(s, a) + 1, PyBound(s, b))
  ELSE <<>>

\* a slice that ignores where it should start
PySliceFrom_all(s, a) == s

\* Python's s[a:]
PySliceFrom(s, a) ==
  IF PyBound(s, a) < Len(s) THEN SubSeq(s, PyBound(s, a) + 1, Len(s)) ELSE <<>>

\* ----------------------------------------------------------------- state

VARIABLES
  variant,       \* "fd" (firebird_driver.py) or "fdb" (fdb.py): the wrappers' module
  ctx,           \* per caller: "greenlet" (context marker present) or "plain"
  interp,        \* "running", "finalizing", or "torn" (sys.is_finalizing() raises)
  loopClosed,    \* the wrappers' scheduler loop is closed
  handle,        \* per wrapper: _sync_connection / _sync_cursor, or None
  _executor,     \* per wrapper: _executor ("ded" or None)
  execShutdown,  \* the dedicated one-worker pool has been shut down
  _zombies,      \* the module's _zombies list
  _rowcount,     \* AsyncCursor._rowcount (fd)
  _buffered_rows,         \* AsyncCursor._buffered_rows (fd): <<>> for None, <<rows>> for a list
  _buffered_index,        \* AsyncCursor._buffered_index (fd)
  _buffered_description,  \* AsyncCursor._buffered_description (fd)
  arraysize,     \* the blocking cursor's arraysize attribute
  fetched,       \* what the fetches served from the buffer returned since it was installed
  dialect,       \* the dialect method in progress: its position and its locals
  syncRowcount,  \* the blocking cursor's _rowcount attribute
  pc,            \* per caller: idle, or waiting for the blocking call with this id
  calls,         \* blocking calls submitted and not yet collected
  nIssued,       \* wrapper calls issued so far (also the id of the latest)
  last,          \* the wrapper call that returned in the step just taken, if any
  closeCalls,    \* per handle: times the blocking close() was invoked
  closed,        \* per wrapper: a close()/terminate() call has returned
  lateUse        \* per wrapper: a blocking method was invoked after that

vars ==
  << variant, ctx, interp, loopClosed, handle, _executor, execShutdown, _zombies,
     _rowcount, _buffered_rows, _buffered_index, _buffered_description,
     arraysize, fetched, dialect, syncRowcount, pc, calls, nIssued, last,
     closeCalls, closed, lateUse >>

Idle == [st |-> "idle", id |-> 0]
Waiting(id) == [st |-> "wait", id |-> id]

NoCall ==
  [ id |-> 0, prev |-> 0, task |-> None, w |-> None, op |-> None, arg |-> NoArg,
    held |-> FALSE, ex |-> None, interp |-> "running", lc |-> FALSE,
    pool |-> "none", st |-> "none", n |-> 0, bres |-> NotCalled,
    res |-> NotCalled ]

\* an execution context as the dialect looks at it: context itself may be
\* None (present = FALSE), compiled may be None, the other attributes are
\* read with getattr and a default
NoContext ==
  [ present |-> FALSE, isinsert |-> FALSE, compiled |-> FALSE,
    effective_returning |-> FALSE, isddl |-> FALSE ]

\* no dialect method is in progress
NoDialect ==
  [ op |-> None, at |-> "idle", t |-> None, context |-> NoContext,
    isddl |-> FALSE, n |-> 0, i |-> 0,
    rows |-> <<>>, exc |-> [cls |-> None, args |-> <<>>],
    description |-> None, total_rowcount |-> 0, res |-> NotCalled,
    did |-> <<>>, got |-> <<>>, counts |-> <<>>, descs |-> <<>> ]

wrapperVars == << handle, _executor, execShutdown, _zombies, _rowcount >>
bufVars ==
  << _buffered_rows, _buffered_index, _buffered_description, arraysize, fetched >>
envVars == << variant, ctx, interp, loopClosed >>

Range(s) == {s[i] : i \in 1..Len(s)}

InitWith(sizes) ==
  /\ variant \in {"fd", "fdb"}
  \* the callers are interchangeable: t1 is the greenlet when only one is
  /\ ctx \in {f \in [Tasks -> {"greenlet", "plain"}] :
                f["t1"] = "plain" => f["t2"] = "plain"}
  /\ interp = "running"
  /\ loopClosed = FALSE
  /\ handle = [w \in Wrappers |-> H(w)]
  \* fdb: AsyncDBAPI.connect hands its one-worker pool to the connection, which
  \* hands it to its cursors, when it ran in a greenlet; fd has no _executor
  /\ _executor \in {[w \in Wrappers |-> None]} \cup
                  (IF variant = "fdb" THEN {[w \in Wrappers |-> "ded"]} ELSE {})
  /\ execShutdown = FALSE
  /\ _zombies = <<>>
  /\ _rowcount = -1
  /\ _buffered_rows = NoBuffer
  /\ _buffered_index = 0
  /\ _buffered_description = None
  /\ arraysize \in sizes
  /\ fetched = <<>>
  /\ dialect = NoDialect
  /\ syncRowcount = -1
  /\ pc = [t \in Tasks |-> Idle]
  /\ calls = {}
  /\ nIssued = 0
  /\ last = NoCall
  /\ closeCalls = [w \in Wrappers |-> 0]
  /\ closed = [w \in Wrappers |-> FALSE]
  /\ lateUse = [w \in Wrappers |-> FALSE]

Init == InitWith(ArraySizes)

\* ---------------------------------------------------------------- bridge

\* fd_exec that never leaves the calling thread
fd_exec_inline(t) == "inline"

\* firebird_driver.py _exec: where the blocking callable runs
fd_exec(t) == IF ctx[t] = "greenlet" THEN "shared" ELSE "inline"

\* fdb_exec that forgets the dedicated executor
fdb_exec_no_executor(t, w) == IF ctx[t] = "greenlet" THEN "shared" ELSE "inline"

\* fdb.py _exec: where the blocking callable runs
fdb_exec(t, w) ==
  IF _executor[w] # None THEN _executor[w]
  ELSE IF ctx[t] = "greenlet" THEN "shared"
  ELSE "inline"

_exec(t, w) == IF variant = "fd" THEN fd_exec(t) ELSE fdb_exec(t, w)

\* loop.run_in_executor on a closed loop, and a submit to a pool that was shut
\* down, raise RuntimeError before anything is scheduled
SubmitFails(t, pool) ==
  \/ pool = "ded" /\ execShutdown
  \/ pool # "inline" /\ ctx[t] = "greenlet" /\ loopClosed

\* a bridge that does not wait for the submitted call
FutureDone_no_wait(c) == TRUE

\* await_only / Future.result(): the caller goes on once the call has finished
FutureDone(c) == c.st = "done"

\* a bridge that swallows what the blocking call raised
Propagate_swallow(bres) == IF IsRaise(bres) THEN Ret(None) ELSE bres

\* await_only / Future.result(): what the caller gets is what the call produced
Propagate(bres) == bres

\* the blocking method a wrapper operation invokes
BlockingOp(op) == IF op = "terminate" THEN "close" ELSE op

IsClose(op) == op \in {"close", "terminate"}

\* is_finalizing that takes a failing check for "not finalizing"
is_finalizing_unguarded(sysArg) == sysArg = None \/ interp = "finalizing"

\* sys.is_finalizing() as close() evaluates it (lines 89-94): a missing sys, a
\* finalizing interpreter and a failing check all count as finalizing
is_finalizing(sysArg) == sysArg = None \/ interp # "running"

\* a wrapper call as it is issued: what it is, and what the wrapper and the
\* environment were at that moment
NewCall(t, w, op, arg, pool) ==
  [ id |-> nIssued + 1, prev |-> (IF last.task = t THEN last.id ELSE 0),
    task |-> t, w |-> w, op |-> op, arg |-> arg,
    held |-> handle[w] # None, ex |-> _executor[w], interp |-> interp,
    lc |-> loopClosed, pool |-> pool,
    st |-> "queued", n |-> 0, bres |-> NotCalled, res |-> NotCalled ]

\* the wrapper call c returns (or raises) res to its caller
Returns(c, res) ==
  /\ last' = [c EXCEPT !.st = "returned", !.res = res]
  /\ closed' = IF IsClose(c.op) /\ ~IsRaise(res)
               THEN [closed EXCEPT ![c.w] = TRUE]
               ELSE closed

\* ------------------------------------------- handlers: code after _exec

\* an execute that adopts the blocking cursor's row count for every statement
fd_execute_finally_adopt(c, out) ==
  /\ _rowcount' = IF handle["cur"] # None THEN syncRowcount ELSE _rowcount
  /\ UNCHANGED << handle, _executor, execShutdown, _zombies >>
  /\ Returns(c, out)

\* firebird_driver.py AsyncCursor.execute, the finally block
fd_execute_finally(c, out) ==
  /\ _rowcount' = IF handle["cur"] # None
                 THEN (IF IsSelectLike(c.arg) THEN -1 ELSE syncRowcount)
                 ELSE _rowcount
  /\ UNCHANGED << handle, _executor, execShutdown, _zombies >>
  /\ Returns(c, out)

\* an executemany that adopts the blocking cursor's row count
fd_executemany_finally_adopt(c, out) ==
  /\ _rowcount' = IF handle["cur"] # None THEN syncRowcount ELSE _rowcount
  /\ UNCHANGED << handle, _executor, execShutdown, _zombies >>
  /\ Returns(c, out)

\* firebird_driver.py AsyncCursor.executemany, the finally block
fd_executemany_finally(c, out) ==
  /\ _rowcount' = IF handle["cur"] # None THEN -1 ELSE _rowcount
  /\ UNCHANGED << handle, _executor, execShutdown, _zombies >>
  /\ Returns(c, out)

\* a fallback that drops the handle without registering it
fd_to_zombies_drop(c, zArg) ==
  /\ handle' = [handle EXCEPT ![c.w] = None]
  /\ UNCHANGED << _zombies, _executor, execShutdown, _rowcount >>
  /\ Returns(c, Ret(None))

\* a fallback that keeps only the latest handle in the registry
fd_to_zombies_replace(c, zArg) ==
  /\ _zombies' = IF zArg # None THEN <<handle[c.w]>> ELSE _zombies
  /\ handle' = [handle EXCEPT ![c.w] = None]
  /\ UNCHANGED << _executor, execShutdown, _rowcount >>
  /\ Returns(c, Ret(None))

\* firebird_driver.py close(): "zombies.append(handle); handle = None"
fd_to_zombies(c, zArg) ==
  /\ _zombies' = IF zArg # None THEN Append(_zombies, handle[c.w]) ELSE _zombies
  /\ handle' = [handle EXCEPT ![c.w] = None]
  /\ UNCHANGED << _executor, execShutdown, _rowcount >>
  /\ Returns(c, Ret(None))

\* a close that forgets to clear the reference after a successful close
fd_close_after_exec_keep(c, out) ==
  IF ~IsRaise(out)
  THEN /\ UNCHANGED << handle, _executor, execShutdown, _zombies, _rowcount >>
       /\ Returns(c, Ret(None))
  ELSE fd_to_zombies(c, c.arg[2])

\* firebird_driver.py close(), after self._exec(handle.close): the handle is
\* dropped when the blocking close returned, and goes to the registry when
\* it raised
fd_close_after_exec(c, out) ==
  IF ~IsRaise(out)
  THEN /\ handle' = [handle EXCEPT ![c.w] = None]
       /\ UNCHANGED << _executor, execShutdown, _zombies, _rowcount >>
       /\ Returns(c, Ret(None))
  ELSE fd_to_zombies(c, c.arg[2])

\* fdb.py AsyncConnection.close, the finally block
fdb_close_finally(c, out) ==
  /\ IF _executor["conn"] # None
     THEN /\ execShutdown' = TRUE
          /\ _executor' = [_executor EXCEPT !["conn"] = None]
     ELSE UNCHANGED << _executor, execShutdown >>
  /\ UNCHANGED << handle, _zombies, _rowcount >>
  /\ Returns(c, out)

\* a connect that leaves its pool running when the attempt failed
fdb_connect_after_exec_leak(c, out) ==
  IF IsRaise(out)
  THEN /\ UNCHANGED << handle, _executor, execShutdown, _zombies, _rowcount >>
       /\ Returns(c, out)
  ELSE /\ handle' = [handle EXCEPT !["conn"] = H("conn")]
       /\ _executor' = [_executor EXCEPT !["conn"] =
                           IF c.pool = "ded" THEN "ded" ELSE None]
       /\ UNCHANGED << execShutdown, _zombies, _rowcount >>
       /\ Returns(c, Ret("AsyncConnection"))

\* fdb.py AsyncDBAPI.connect, after the connection attempt: a failure in a
\* greenlet shuts the new pool down and is raised again; otherwise the blocking
\* connection is wrapped together with the pool (None in a plain context)
fdb_connect_after_exec(c, out) ==
  IF IsRaise(out)
  THEN /\ execShutdown' = (execShutdown \/ c.pool = "ded")
       /\ UNCHANGED << handle, _executor, _zombies, _rowcount >>
       /\ Returns(c, out)
  ELSE /\ handle' = [handle EXCEPT !["conn"] = H("conn")]
       /\ _executor' = [_executor EXCEPT !["conn"] =
                           IF c.pool = "ded" THEN "ded" ELSE None]
       /\ UNCHANGED << execShutdown, _zombies, _rowcount >>
       /\ Returns(c, Ret("AsyncConnection"))

\* a handler that is "return self._exec(...)" and nothing else
plain_return(c, out) ==
  /\ UNCHANGED wrapperVars
  /\ Returns(c, out)

\* the rest of c's handler once _exec has returned or raised out
Complete(t, c, out) ==
  /\ pc' = [pc EXCEPT ![t] = Idle]
  /\ CASE variant = "fd" /\ c.op = "execute" -> fd_execute_finally(c, out)
       [] variant = "fd" /\ c.op = "executemany" -> fd_executemany_finally(c, out)
       [] variant = "fd" /\ IsClose(c.op) -> fd_close_after_exec(c, out)
       [] variant = "fdb" /\ c.w = "conn" /\ IsClose(c.op) -> fdb_close_finally(c, out)
       [] variant = "fdb" /\ c.op = "connect" -> fdb_connect_after_exec(c, out)
       [] OTHER -> plain_return(c, out)

\* a handler evaluates self._sync_x.<op> and hands it to the bridge: the call is
\* queued at its pool and the caller waits, unless the handle is gone
\* (AttributeError on None) or the submission fails (RuntimeError)
Bridge(t, c) ==
  /\ pc[t] = Idle
  /\ nIssued' = nIssued + 1
  /\ IF handle[c.w] = None
     THEN /\ Complete(t, [c EXCEPT !.pool = "none"], Raise("AttributeError"))
          /\ UNCHANGED calls
     ELSE IF SubmitFails(t, c.pool)
     THEN /\ Complete(t, [c EXCEPT !.pool = "none"], Raise("RuntimeError"))
          /\ UNCHANGED calls
     ELSE /\ calls' = calls \cup {c}
          /\ pc' = [pc EXCEPT ![t] = Waiting(c.id)]
          /\ last' = NoCall
          /\ UNCHANGED << wrapperVars, closed >>
  /\ UNCHANGED << envVars, bufVars, syncRowcount, closeCalls, lateUse >>

\* a handler whose body is self._exec(self._sync_x.<op>, ...)
Exec(t, w, op, arg) == Bridge(t, NewCall(t, w, op, arg, _exec(t, w)))

\* -------------------------------------------- firebird_driver.py wrappers

fd_AsyncCursor_execute(t, operation) ==
  variant = "fd" /\ Exec(t, "cur", "execute", operation)

fd_AsyncCursor_executemany(t, operation) ==
  variant = "fd" /\ Exec(t, "cur", "executemany", operation)

\* a fetch served from the buffer: it returns res at once and leaves the
\* buffer position at index
FromBuffer(t, c, res, index) ==
  /\ pc[t] = Idle
  /\ nIssued' = nIssued + 1
  /\ _buffered_index' = index
  /\ fetched' = Append(fetched, <<c.op, res>>)
  /\ Returns([c EXCEPT !.pool = "none"], res)
  /\ UNCHANGED << envVars, wrapperVars, _buffered_rows, _buffered_description,
                  arraysize, syncRowcount, pc, calls, closeCalls, lateUse >>

\* a fetchone that always asks the blocking cursor
fd_AsyncCursor_fetchone_live(t) ==
  variant = "fd" /\ Exec(t, "cur", "fetchone", NoArg)

fd_AsyncCursor_fetchone(t) ==
  /\ variant = "fd"
  /\ IF _buffered_rows # NoBuffer
     THEN LET rows == _buffered_rows[1]
              c == NewCall(t, "cur", "fetchone", NoArg, "none")
          IN  IF _buffered_index >= Len(rows)
              THEN FromBuffer(t, c, Ret(None), _buffered_index)
              ELSE IF PyIndexOk(rows, _buffered_index)
              THEN FromBuffer(t, c, Ret(PyIndex(rows, _buffered_index)),
                              _buffered_index + 1)
              ELSE FromBuffer(t, c, Raise("IndexError"), _buffered_index)
     ELSE Exec(t, "cur", "fetchone", NoArg)

\* fetchmany(size=None): size is <<>> when not given, <<n>> when given
fd_AsyncCursor_fetchmany(t, size) ==
  /\ variant = "fd"
  /\ IF _buffered_rows # NoBuffer
     THEN LET rows == _buffered_rows[1]
              n == IF size # <<>> THEN size[1]
                   ELSE IF handle["cur"] # None THEN arraysize ELSE 1
              start == _buffered_index
              end == IF start + n < Len(rows) THEN start + n ELSE Len(rows)
              c == NewCall(t, "cur", "fetchmany", size, "none")
          IN  FromBuffer(t, c, Rows(PySlice(rows, start, end)), end)
     ELSE Exec(t, "cur", "fetchmany",
               IF size = <<>> THEN NoArg ELSE <<ToString(size[1])>>)

fd_AsyncCursor_fetchall(t) ==
  /\ variant = "fd"
  /\ IF _buffered_rows # NoBuffer
     THEN LET rows == _buffered_rows[1]
              c == NewCall(t, "cur", "fetchall", NoArg, "none")
          IN  FromBuffer(t, c, Rows(PySliceFrom(rows, _buffered_index)), Len(rows))
     ELSE Exec(t, "cur", "fetchall", NoArg)

\* an installation that adds the rows to the buffer already there and keeps
\* the position
fd_AsyncCursor__set_buffered_rows_append(rows, description) ==
  /\ variant = "fd"
  /\ _buffered_rows' = IF _buffered_rows = NoBuffer THEN Buffer(rows)
                       ELSE Buffer(_buffered_rows[1] \o rows)
  /\ _buffered_description' = description
  /\ fetched' = <<>>
  /\ last' = NoCall
  /\ UNCHANGED << envVars, wrapperVars, _buffered_index, arraysize, syncRowcount,
                  pc, calls, nIssued, closeCalls, closed, lateUse >>

\* _set_buffered_rows(rows, description), the hook of the dialect
fd_AsyncCursor__set_buffered_rows(rows, description) ==
  /\ variant = "fd"
  /\ _buffered_rows' = Buffer(rows)
  /\ _buffered_index' = 0
  /\ _buffered_description' = description
  /\ fetched' = <<>>
  /\ last' = NoCall
  /\ UNCHANGED << envVars, wrapperVars, arraysize, syncRowcount, pc, calls,
                  nIssued, closeCalls, closed, lateUse >>

fd_AsyncCursor_nextset(t) == variant = "fd" /\ Exec(t, "cur", "nextset", NoArg)

\* close(self, sys=sys, _zombies=_zombies) of AsyncCursor and AsyncConnection
fd_close(t, w, op, sysArg, zArg) ==
  LET c == NewCall(t, w, op, <<sysArg, zArg>>, fd_exec(t))
      quiet == [c EXCEPT !.pool = "none"]
  IN  /\ variant = "fd"
      /\ IF handle[w] = None
         THEN \* already closed: return at once
              /\ pc[t] = Idle
              /\ nIssued' = nIssued + 1
              /\ Returns(quiet, Ret(None))
              /\ UNCHANGED << wrapperVars, bufVars, pc, calls, envVars,
                              syncRowcount, closeCalls, lateUse >>
         ELSE IF is_finalizing(sysArg) \/ ~(ctx[t] = "greenlet" /\ ~loopClosed)
         THEN \* finalizing, or no greenlet context or loop: do not touch the handle
              /\ pc[t] = Idle
              /\ nIssued' = nIssued + 1
              /\ fd_to_zombies(quiet, zArg)
              /\ UNCHANGED << bufVars, pc, calls, envVars, syncRowcount,
                              closeCalls, lateUse >>
         ELSE Bridge(t, c)

fd_AsyncCursor_close(t, sysArg, zArg) == fd_close(t, "cur", "close", sysArg, zArg)

fd_AsyncConnection_close(t, sysArg, zArg) == fd_close(t, "conn", "close", sysArg, zArg)

\* a terminate that keeps the handle out of the registry
fd_AsyncConnection_terminate_no_registry(t) ==
  fd_close(t, "conn", "terminate", "sys", None)

\* terminate(): self.close() with the default arguments
fd_AsyncConnection_terminate(t) == fd_close(t, "conn", "terminate", "sys", "registry")

\* cursor(): self._sync_connection.cursor() is called directly, not through _exec
fd_AsyncConnection_cursor(t) ==
  variant = "fd" /\ Bridge(t, NewCall(t, "conn", "cursor", NoArg, "inline"))

fd_AsyncConnection_commit(t) == variant = "fd" /\ Exec(t, "conn", "commit", NoArg)

fd_AsyncConnection_rollback(t) == variant = "fd" /\ Exec(t, "conn", "rollback", NoArg)

\* ------------------------------------------------------- fdb.py wrappers

fdb_AsyncCursor_execute(t, operation) ==
  variant = "fdb" /\ Exec(t, "cur", "execute", operation)

fdb_AsyncCursor_executemany(t, operation) ==
  variant = "fdb" /\ Exec(t, "cur", "executemany", operation)

fdb_AsyncCursor_fetchone(t) == variant = "fdb" /\ Exec(t, "cur", "fetchone", NoArg)

fdb_AsyncCursor_fetchmany(t, size) ==
  variant = "fdb" /\ Exec(t, "cur", "fetchmany",
                          IF size = <<>> THEN NoArg ELSE <<ToString(size[1])>>)

fdb_AsyncCursor_fetchall(t) == variant = "fdb" /\ Exec(t, "cur", "fetchall", NoArg)

fdb_AsyncCursor_close(t) == variant = "fdb" /\ Exec(t, "cur", "close", NoArg)

fdb_AsyncCursor_nextset(t) == variant = "fdb" /\ Exec(t, "cur", "nextset", NoArg)

fdb_AsyncConnection_cursor(t) == variant = "fdb" /\ Exec(t, "conn", "cursor", NoArg)

fdb_AsyncConnection_begin(t) == variant = "fdb" /\ Exec(t, "conn", "begin", NoArg)

fdb_AsyncConnection_commit(t) == variant = "fdb" /\ Exec(t, "conn", "commit", NoArg)

fdb_AsyncConnection_rollback(t) == variant = "fdb" /\ Exec(t, "conn", "rollback", NoArg)

fdb_AsyncConnection_close(t) == variant = "fdb" /\ Exec(t, "conn", "close", NoArg)

fdb_AsyncConnection_terminate(t) == variant = "fdb" /\ Exec(t, "conn", "terminate", NoArg)

\* AsyncDBAPI.connect(*args, **kwargs): in a greenlet a new one-worker pool
\* runs the blocking connect and the caller is suspended; otherwise the
\* blocking connect runs in the calling thread
fdb_AsyncDBAPI_connect(t) ==
  LET pool == IF ctx[t] = "greenlet" THEN "ded" ELSE "inline"
      c == NewCall(t, "conn", "connect", NoArg, pool)
  IN  /\ variant = "fdb"
      /\ pc[t] = Idle
      /\ handle["conn"] = None
      /\ nIssued' = nIssued + 1
      /\ calls' = calls \cup {c}
      /\ pc' = [pc EXCEPT ![t] = Waiting(c.id)]
      /\ last' = NoCall
      \* ThreadPoolExecutor(max_workers=1): the pool is new, so it is running
      /\ execShutdown' = (execShutdown /\ pool # "ded")
      /\ UNCHANGED << envVars, handle, _executor, _zombies, _rowcount, bufVars,
                      dialect, syncRowcount, closeCalls, closed, lateUse >>

\* ------------------------------------------- worker pools and the caller

\* the operations of the blocking cursor after which its _rowcount may differ
TouchesRowcount(c) ==
  variant = "fd" /\ c.w = "cur" /\ c.op \in {"execute", "executemany", "fetchone", "fetchmany", "fetchall"}

\* a worker of c's pool (the calling thread, for an inline call) invokes the
\* blocking method; the one-worker pool runs one call at a time
WorkerStart(c) ==
  /\ c \in calls
  /\ c.st = "queued"
  /\ c.pool = "ded" => ~\E d \in calls : d.pool = "ded" /\ d.st = "running"
  /\ calls' = (calls \ {c}) \cup {[c EXCEPT !.st = "running", !.n = c.n + 1]}
  /\ closeCalls' = IF IsClose(c.op)
                   THEN [closeCalls EXCEPT ![c.w] = @ + 1]
                   ELSE closeCalls
  /\ lateUse' = [lateUse EXCEPT ![c.w] = @ \/ closed[c.w]]
  /\ last' = NoCall
  /\ UNCHANGED << envVars, wrapperVars, bufVars, syncRowcount, pc, nIssued, closed,
                  dialect >>

\* the blocking method returns or raises
WorkerFinish(c, out, rc) ==
  /\ c \in calls
  /\ c.st = "running"
  /\ calls' = IF pc[c.task] = Waiting(c.id)
              THEN (calls \ {c}) \cup {[c EXCEPT !.st = "done", !.bres = out]}
              ELSE calls \ {c}
  /\ syncRowcount' = rc
  /\ last' = NoCall
  /\ UNCHANGED << envVars, wrapperVars, bufVars, pc, nIssued, closeCalls, closed,
                  lateUse, dialect >>

\* the caller of a finished call goes on with the rest of its handler
Resume(t) ==
  /\ pc[t].st = "wait"
  /\ \E c \in calls :
       /\ c.id = pc[t].id
       /\ FutureDone(c)
       /\ Complete(t, c, Propagate(c.bres))
       /\ calls' = IF c.st = "done" THEN calls \ {c} ELSE calls
  /\ UNCHANGED << envVars, bufVars, syncRowcount, nIssued, closeCalls, lateUse,
                  dialect >>

\* ---------------------------------------------------------------- dialect

AllIdle == \A t \in Tasks : pc[t] = Idle

\* a step of a dialect method that calls no wrapper method
DialectLocal ==
  /\ last' = NoCall
  /\ UNCHANGED << envVars, wrapperVars, bufVars, syncRowcount, pc, calls, nIssued,
                  closeCalls, closed, lateUse >>

\* a list that puts the new rows in front
ExtendRows_prepend(rows, batch_rows) == batch_rows \o rows

\* do_executemany: "if batch_rows: rows.extend(batch_rows)"
ExtendRows(rows, batch_rows) == rows \o batch_rows

\* a description that always asks the blocking cursor
fd_AsyncCursor_description_live(sync_description) == sync_description

\* AsyncCursor.description
fd_AsyncCursor_description(sync_description) ==
  IF _buffered_description # None THEN _buffered_description ELSE sync_description

\* AsyncCursor.rowcount: "return self._rowcount"
fd_AsyncCursor_rowcount == _rowcount

\* AsyncFirebirdDialect.do_executemany for an insert with a returning clause
\* and n parameter sets: rows = [], description = None, total_rowcount = 0
fd_do_executemany_begin(t, n) ==
  /\ variant = "fd"
  /\ dialect.at = "idle"
  /\ AllIdle
  /\ dialect' = [NoDialect EXCEPT !.op = "do_executemany", !.at = "loop",
                                  !.t = t, !.n = n]
  /\ DialectLocal

\* the loop body up to the wait: super().do_execute(cursor, statement, params)
fd_do_executemany_execute(t) ==
  /\ dialect.op = "do_executemany" /\ dialect.at = "loop" /\ dialect.t = t
  /\ dialect.i < dialect.n
  /\ fd_AsyncCursor_execute(t, StmtInsert)
  /\ dialect' = [dialect EXCEPT !.at = "executed",
                                !.did = Append(@, <<"execute", dialect.i + 1>>)]

\* execute returned: total_rowcount += cursor.rowcount when that is positive,
\* then batch_rows = cursor.fetchall()
fd_do_executemany_fetchall(t) ==
  /\ dialect.op = "do_executemany" /\ dialect.at = "executed" /\ dialect.t = t
  /\ pc[t] = Idle
  /\ ~IsRaise(last.res)
  /\ fd_AsyncCursor_fetchall(t)
  /\ dialect' = [dialect EXCEPT
                   !.at = "fetched",
                   !.total_rowcount = @ + (IF _rowcount > 0 THEN _rowcount ELSE 0),
                   !.counts = Append(@, syncRowcount),
                   !.did = Append(@, <<"fetchall", dialect.i + 1>>)]

\* fetchall returned: description is taken once, the rows are accumulated
fd_do_executemany_collect(t, sync_description) ==
  /\ dialect.op = "do_executemany" /\ dialect.at = "fetched" /\ dialect.t = t
  /\ pc[t] = Idle
  /\ ~IsRaise(last.res)
  /\ dialect' = [dialect EXCEPT
                   !.at = "loop",
                   !.i = @ + 1,
                   !.description = IF @ = None
                                   THEN fd_AsyncCursor_description(sync_description)
                                   ELSE @,
                   !.rows = ExtendRows(@, last.res[2]),
                   !.got = Append(@, last.res[2]),
                   !.descs = Append(@, sync_description)]
  /\ DialectLocal

\* execute or fetchall raised: the exception leaves do_executemany
fd_do_executemany_raise(t) ==
  /\ dialect.op = "do_executemany" /\ dialect.at \in {"executed", "fetched"}
  /\ dialect.t = t
  /\ pc[t] = Idle
  /\ IsRaise(last.res)
  /\ dialect' = [dialect EXCEPT !.at = "raised", !.res = last.res]
  /\ DialectLocal

\* after the loop: cursor._set_buffered_rows(rows, description);
\* cursor._rowcount = total_rowcount
fd_do_executemany_install(t) ==
  /\ dialect.op = "do_executemany" /\ dialect.at = "loop" /\ dialect.t = t
  /\ dialect.i = dialect.n
  /\ _buffered_rows' = Buffer(dialect.rows)
  /\ _buffered_index' = 0
  /\ _buffered_description' = dialect.description
  /\ fetched' = <<>>
  /\ _rowcount' = dialect.total_rowcount
  /\ dialect' = [dialect EXCEPT !.at = "done", !.res = Ret(None)]
  /\ last' = NoCall
  /\ UNCHANGED << envVars, handle, _executor, execShutdown, _zombies, arraysize,
                  syncRowcount, pc, calls, nIssued, closeCalls, closed, lateUse >>

\* a test that sends every insert through the emulation
fd_do_executemany_emulates_any_insert(context) ==
  context.present /\ context.isinsert

\* do_executemany, the test of lines 342-347: the per-row emulation is for an
\* insert whose compiled statement has a returning clause
fd_do_executemany_emulates(context) ==
  /\ context.present
  /\ context.isinsert
  /\ context.compiled
  /\ context.effective_returning

\* do_executemany(cursor, statement, parameters, context) with n parameter
\* sets: the emulation starts, or super().do_executemany hands the whole
\* sequence to cursor.executemany
fd_do_executemany(t, context, n) ==
  /\ variant = "fd"
  /\ dialect.at = "idle"
  /\ AllIdle
  /\ IF fd_do_executemany_emulates(context)
     THEN /\ dialect' = [NoDialect EXCEPT !.op = "do_executemany", !.at = "loop",
                                          !.t = t, !.n = n, !.context = context]
          /\ DialectLocal
     ELSE /\ fd_AsyncCursor_executemany(t, StmtInsert)
          /\ dialect' = [NoDialect EXCEPT !.op = "do_executemany",
                                          !.at = "native", !.t = t, !.n = n,
                                          !.context = context,
                                          !.did = <<<<"executemany", n>>>>]

\* cursor.executemany has returned or raised: so does do_executemany
fd_do_executemany_native_return(t) ==
  /\ dialect.op = "do_executemany" /\ dialect.at = "native" /\ dialect.t = t
  /\ pc[t] = Idle
  /\ last.st = "returned" /\ last.task = t
  /\ dialect' = [dialect EXCEPT !.at = IF IsRaise(last.res) THEN "raised" ELSE "done",
                                !.res = last.res]
  /\ DialectLocal

\* a post_exec that gives up when closing the cursor fails
fdb_post_exec_close_passed_strict(res) == ~IsRaise(res)

\* AsyncFDBExecutionContext.post_exec: "try: self.cursor.close() except
\* Exception: pass" lets post_exec go on whatever close() did
fdb_post_exec_close_passed(res) == TRUE

\* a statement of the fdb dialect is executed on its cursor; post_exec follows
\* when it did not raise
fdb_statement_execute(t, isddl) ==
  /\ variant = "fdb"
  /\ dialect.at = "idle"
  /\ AllIdle
  /\ fdb_AsyncCursor_execute(t, StmtInsert)
  /\ dialect' = [NoDialect EXCEPT !.op = "post_exec", !.at = "executed", !.t = t,
                                  !.isddl = isddl,
                                  !.did = <<"execute">>]

\* the dialect has the result of the wrapper call it made last
DialectCallReturned(t, at) ==
  /\ dialect.op = "post_exec" /\ dialect.at = at /\ dialect.t = t
  /\ pc[t] = Idle
  /\ last.st = "returned"

\* what the dialect notes of that call: its result, and how often it reached
\* the blocking handle
NoteReturned(d) ==
  [d EXCEPT !.got = Append(@, last.res), !.counts = Append(@, last.n)]

\* post_exec of a statement that is no DDL: nothing to do
fdb_post_exec_not_ddl(t) ==
  /\ DialectCallReturned(t, "executed")
  /\ ~IsRaise(last.res)
  /\ ~dialect.isddl
  /\ dialect' = [NoteReturned(dialect) EXCEPT !.at = "done", !.res = Ret(None)]
  /\ DialectLocal

\* post_exec of a DDL statement: self.cursor.close()
fdb_post_exec_close(t) ==
  /\ DialectCallReturned(t, "executed")
  /\ ~IsRaise(last.res)
  /\ dialect.isddl
  /\ fdb_AsyncCursor_close(t)
  /\ dialect' = [NoteReturned(dialect) EXCEPT !.at = "closed",
                                               !.did = Append(@, "close")]

\* driver_conn.commit()
fdb_post_exec_commit(t) ==
  /\ DialectCallReturned(t, "closed")
  /\ fdb_post_exec_close_passed(last.res)
  /\ fdb_AsyncConnection_commit(t)
  /\ dialect' = [NoteReturned(dialect) EXCEPT !.at = "committed",
                                               !.did = Append(@, "commit")]

\* driver_conn.begin()
fdb_post_exec_begin(t) ==
  /\ DialectCallReturned(t, "committed")
  /\ ~IsRaise(last.res)
  /\ fdb_AsyncConnection_begin(t)
  /\ dialect' = [NoteReturned(dialect) EXCEPT !.at = "begun",
                                               !.did = Append(@, "begin")]

\* post_exec returns
fdb_post_exec_return(t) ==
  /\ DialectCallReturned(t, "begun")
  /\ ~IsRaise(last.res)
  /\ dialect' = [NoteReturned(dialect) EXCEPT !.at = "done", !.res = Ret(None)]
  /\ DialectLocal

\* the statement, commit() or begin() raised: the exception goes to the caller
\* (one raised by close() does not)
fdb_post_exec_raise(t) ==
  /\ \E at \in {"executed", "closed", "committed", "begun"} :
       /\ DialectCallReturned(t, at)
       /\ IsRaise(last.res)
       /\ at = "closed" => ~fdb_post_exec_close_passed(last.res)
  /\ dialect' = [NoteReturned(dialect) EXCEPT !.at = "raised", !.res = last.res]
  /\ DialectLocal

\* ------------------------------------------------- exceptions and their text

\* an argument of an exception: a string (its characters) or an integer
StrArg(s) == <<"str", s>>
IntArg(n) == <<"int", n>>

\* Python's "needle in hay" for strings
Contains(hay, needle) ==
  \E k \in 0..(Len(hay) - Len(needle)) : SubSeq(hay, k + 1, k + Len(needle)) = needle

\* str(e) of an exception that does not override __str__: nothing for no
\* argument, the argument's str() for one, the tuple's repr() for more (the
\* strings here hold no quote and no backslash, so repr() only adds the quotes)
ExcStr(e) ==
  LET Digit == <<"0", "1", "2", "3", "4", "5", "6", "7", "8", "9">>
      RECURSIVE NatStr(_)
      NatStr(n) ==
        IF n < 10
        THEN <<Digit[n + 1]>>
        ELSE NatStr(n \div 10) \o <<Digit[(n % 10) + 1]>>
      IntStr(n) == IF n < 0 THEN <<"-">> \o NatStr(-n) ELSE NatStr(n)
      PyStrOf(a) == IF a[1] = "str" THEN a[2] ELSE IntStr(a[2])
      PyRepr(a) == IF a[1] = "str" THEN <<"'">> \o a[2] \o <<"'">> ELSE IntStr(a[2])
      RECURSIVE JoinRepr(_)
      JoinRepr(args) ==
        IF Len(args) = 1
        THEN PyRepr(args[1])
        ELSE PyRepr(args[1]) \o <<",", " ">> \o JoinRepr(Tail(args))
  IN  CASE Len(e.args) = 0 -> <<>>
        [] Len(e.args) = 1 -> PyStrOf(e.args[1])
        [] OTHER -> <<"(">> \o JoinRepr(e.args) \o <<")">>

\* the driver's exception classes that are DatabaseError or derive from it,
\* and one that does not
DatabaseErrorClasses == {"DatabaseError", "ProgrammingError"}
ExceptionClasses == DatabaseErrorClasses \cup {"InterfaceError"}

\* "Error writing data to the connection"
DISCONNECT_TEXT ==
  <<"E", "r", "r", "o", "r", " ", "w", "r", "i", "t", "i", "n", "g", " ",
    "d", "a", "t", "a", " ", "t", "o", " ", "t", "h", "e", " ", "c", "o",
    "n", "n", "e", "c", "t", "i", "o", "n">>

DisconnectCodes == {335546001, 335546003, 335546005}

\* AsyncFDBDialect.is_disconnect(e, connection, cursor)
fdb_is_disconnect(e) ==
  IF e.cls \in DatabaseErrorClasses
  THEN IF ~PyIndexOk(e.args, 1)
       THEN Raise("IndexError")
       ELSE IF \/ /\ PyIndex(e.args, 1)[1] = "int"
                  /\ PyIndex(e.args, 1)[2] \in DisconnectCodes
               \/ Contains(ExcStr(e), DISCONNECT_TEXT)
            THEN Ret("True")
            ELSE Ret("False")
  ELSE Ret("super")

\* messages a driver exception may carry: the text, the text inside a longer
\* one, the text cut short, the text in another case, another text
DisconnectMessages ==
  { DISCONNECT_TEXT,
    <<"x", " ">> \o DISCONNECT_TEXT \o <<".">>,
    SubSeq(DISCONNECT_TEXT, 1, Len(DISCONNECT_TEXT) - 1),
    <<"e">> \o Tail(DISCONNECT_TEXT),
    <<"x">> }

\* the driver exceptions is_disconnect is asked about
DisconnectExceptions ==
  LET first == {StrArg(m) : m \in DisconnectMessages}
      SecondArgs == {IntArg(c) : c \in DisconnectCodes \cup {335546002, 0 - 902}}
      ThirdArgs == {IntArg(335546001), IntArg(335544721)}
      args == {<<>>} \cup {<<a>> : a \in first}
                \cup {<<a, b>> : a \in first, b \in SecondArgs}
                \cup {<<a, b, c>> : a \in first, b \in SecondArgs, c \in ThirdArgs}
  IN  {[cls |-> k, args |-> a] : k \in ExceptionClasses, a \in args}

\* a statement of the fdb dialect failed with e
fdb_exception_caught(e) ==
  /\ variant = "fdb"
  /\ dialect.at = "idle"
  /\ AllIdle
  /\ dialect' = [NoDialect EXCEPT !.op = "is_disconnect", !.at = "caught", !.exc = e]
  /\ DialectLocal

\* the engine asks the dialect whether the connection is lost
fdb_is_disconnect_called ==
  /\ dialect.op = "is_disconnect"
  /\ dialect.at = "caught"
  /\ dialect' = [dialect EXCEPT !.at = "done", !.res = fdb_is_disconnect(dialect.exc)]
  /\ DialectLocal

\* str.lower(), one character
LowerChar(c) ==
  IF \E i \in 1..Len(Upper) : Upper[i] = c
  THEN Lower[CHOOSE i \in 1..Len(Upper) : Upper[i] = c]
  ELSE c

\* str.lower()
StrLower(s) == [i \in 1..Len(s) |-> LowerChar(s[i])]

\* the words the hooks look for
Word ==
  [ violation |-> <<"v", "i", "o", "l", "a", "t", "i", "o", "n">>,
    primary |-> <<"p", "r", "i", "m", "a", "r", "y">>,
    unique |-> <<"u", "n", "i", "q", "u", "e">>,
    foreign |-> <<"f", "o", "r", "e", "i", "g", "n">>,
    constraint |-> <<"c", "o", "n", "s", "t", "r", "a", "i", "n", "t">> ]

\* AsyncFirebirdDialect.dbapi_exception_translation(exception, ...)
fd_dbapi_exception_translation(exception) ==
  LET msg == StrLower(ExcStr(exception))
  IN  IF /\ Contains(msg, Word.violation)
         /\ \/ Contains(msg, Word.primary) \/ Contains(msg, Word.unique)
            \/ Contains(msg, Word.foreign) \/ Contains(msg, Word.constraint)
      THEN Ret("IntegrityError")
      ELSE Ret("super")

\* AsyncFirebirdDialect.wrap_dbapi_exception(e, ...)
fd_wrap_dbapi_exception(e) ==
  LET msg == StrLower(ExcStr(e))
  IN  IF /\ Contains(msg, Word.violation)
         /\ \/ Contains(msg, Word.primary) \/ Contains(msg, Word.unique)
            \/ Contains(msg, Word.foreign) \/ Contains(msg, Word.constraint)
      THEN Ret("IntegrityError")
      ELSE Ret("super")

\* a handler that takes every violation for an integrity error
fd_do_execute_except_any_violation(e) ==
  IF Contains(StrLower(ExcStr(e)), Word.violation)
  THEN Raise("IntegrityError")
  ELSE Raise(e.cls)

\* AsyncFirebirdDialect.do_execute, its "except Exception as e" handler:
\* raises IntegrityError from e, or e again
fd_do_execute_except(e) ==
  LET msg == StrLower(ExcStr(e))
  IN  IF /\ Contains(msg, Word.violation)
         /\ \/ Contains(msg, Word.primary) \/ Contains(msg, Word.unique)
            \/ Contains(msg, Word.foreign) \/ Contains(msg, Word.constraint)
      THEN Raise("IntegrityError")
      ELSE Raise(e.cls)

\* the exceptions of the blocking driver: e1 reports a lost table, e2 a
\* violated unique key
DriverException(e) ==
  [ cls |-> e,
    args |-> << StrArg(IF e = "e2"
                       THEN << "v", "i", "o", "l", "a", "t", "i", "o", "n", " ",
                               "o", "f", " ", "U", "N", "I", "Q", "U", "E", " ",
                               "K", "E", "Y" >>
                       ELSE << "T", "a", "b", "l", "e", " ", "u", "n", "k", "n",
                               "o", "w", "n" >>) >> ]

\* AsyncFirebirdDialect.do_execute and do_execute_no_params (method names
\* the one called): super() executes the statement with cursor.execute
fd_do_execute(t, method, context) ==
  /\ variant = "fd"
  /\ dialect.at = "idle"
  /\ AllIdle
  /\ fd_AsyncCursor_execute(t, StmtInsert)
  /\ dialect' = [NoDialect EXCEPT !.op = method, !.at = "executed", !.t = t,
                                  !.context = context, !.did = <<"execute">>]

\* the dialect method of t has the result of the call it made when it was at
fd_dialect_has_result(t, at) ==
  /\ dialect.op \in {"do_execute", "do_execute_no_params"}
  /\ dialect.at = at /\ dialect.t = t
  /\ pc[t] = Idle
  /\ last.st = "returned"

\* _commit_ddl(cursor, context): nothing without a DDL context or without
\* cursor.connection (None once the cursor is closed); otherwise conn.commit
\* on the driver's connection, through the shared pool from a greenlet and
\* directly from a plain caller
fd_commit_ddl(t) ==
  /\ fd_dialect_has_result(t, "executed")
  /\ ~IsRaise(last.res)
  /\ IF dialect.context.present /\ dialect.context.isddl /\ handle["cur"] # None
     THEN /\ Bridge(t, NewCall(t, "conn", "commit", NoArg, fd_exec(t)))
          /\ dialect' = [NoteReturned(dialect) EXCEPT
                           !.at = "committed", !.did = Append(@, "commit")]
     ELSE /\ dialect' = [NoteReturned(dialect) EXCEPT !.at = "done",
                                                      !.res = Ret(None)]
          /\ DialectLocal

\* conn.commit has returned: the method returns None
fd_do_execute_return(t) ==
  /\ fd_dialect_has_result(t, "committed")
  /\ ~IsRaise(last.res)
  /\ dialect' = [NoteReturned(dialect) EXCEPT !.at = "done", !.res = Ret(None)]
  /\ DialectLocal

\* the statement or the commit raised: do_execute hands the exception to its
\* handler, do_execute_no_params has none
fd_do_execute_raise(t) ==
  /\ \E at \in {"executed", "committed"} : fd_dialect_has_result(t, at)
  /\ IsRaise(last.res)
  /\ dialect' = [NoteReturned(dialect) EXCEPT
                   !.at = "raised",
                   !.res = IF dialect.op = "do_execute"
                           THEN fd_do_execute_except(DriverException(last.res[2]))
                           ELSE last.res]
  /\ DialectLocal

\* AsyncFDBDialect.dbapi_exception_translation(exception, ...)
fdb_dbapi_exception_translation(exception) ==
  LET msg == StrLower(ExcStr(exception))
  IN  IF /\ Contains(msg, Word.violation)
         /\ \/ Contains(msg, Word.primary) \/ Contains(msg, Word.unique)
            \/ Contains(msg, Word.foreign) \/ Contains(msg, Word.constraint)
      THEN Ret("IntegrityError")
      ELSE Ret("super")

\* AsyncFDBDialect.wrap_dbapi_exception(e, ...)
fdb_wrap_dbapi_exception(e) ==
  LET msg == StrLower(ExcStr(e))
  IN  IF /\ Contains(msg, Word.violation)
         /\ \/ Contains(msg, Word.primary) \/ Contains(msg, Word.unique)
            \/ Contains(msg, Word.foreign) \/ Contains(msg, Word.constraint)
      THEN Ret("IntegrityError")
      ELSE Ret("super")

\* the reclassification hooks of each dialect
Hooks ==
  [ fd |-> {"dbapi_exception_translation", "wrap_dbapi_exception", "do_execute"},
    fdb |-> {"dbapi_exception_translation", "wrap_dbapi_exception"} ]

Hook(v, h, e) ==
  CASE v = "fd" /\ h = "dbapi_exception_translation" -> fd_dbapi_exception_translation(e)
    [] v = "fd" /\ h = "wrap_dbapi_exception" -> fd_wrap_dbapi_exception(e)
    [] v = "fd" /\ h = "do_execute" -> fd_do_execute_except(e)
    [] v = "fdb" /\ h = "dbapi_exception_translation" -> fdb_dbapi_exception_translation(e)
    [] v = "fdb" /\ h = "wrap_dbapi_exception" -> fdb_wrap_dbapi_exception(e)

\* pieces of the messages a failed statement may carry
MessagePieces ==
  { <<"V", "I", "O", "L", "A", "T", "I", "O", "N">>,
    <<"v", "i", "o", "l", "a", "t", "i", "o">>,
    <<"P", "r", "i", "m", "a", "r", "y">>,
    <<"U", "N", "I", "Q", "U", "E">>,
    <<"f", "o", "r", "e", "i", "g", "n">>,
    <<"C", "o", "n", "s", "t", "r", "a", "i", "n", "T">> }

\* the messages of at most n pieces
RECURSIVE MessagesOf(_)
MessagesOf(n) ==
  IF n = 0
  THEN {<<>>}
  ELSE MessagesOf(n - 1) \cup {m \o p : m \in MessagesOf(n - 1), p \in MessagePieces}

\* the exceptions the hooks are given: the message alone, or with a code
IntegrityExceptions ==
  {[cls |-> "DatabaseError", args |-> a] :
     a \in {<<StrArg(m)>> : m \in MessagesOf(MaxPieces)}
           \cup {<<StrArg(m), IntArg(0 - 803)>> : m \in MessagesOf(1)}}

\* a statement failed with e
exception_caught(e) ==
  /\ dialect.at = "idle"
  /\ AllIdle
  /\ dialect' = [NoDialect EXCEPT !.op = "reclassify", !.at = "caught", !.exc = e]
  /\ DialectLocal

\* one of the dialect's hooks is given the exception
hook_called(h) ==
  /\ dialect.op = "reclassify"
  /\ dialect.at = "caught"
  /\ h \in Hooks[variant]
  /\ dialect' = [dialect EXCEPT !.at = "done", !.did = <<h>>,
                                !.res = Hook(variant, h, dialect.exc)]
  /\ DialectLocal

\* ------------------------------------------------------------ environment

\* the interpreter starts to shut down
BeginFinalize ==
  /\ interp = "running"
  /\ interp' = "finalizing"
  /\ UNCHANGED << variant, ctx, loopClosed, wrapperVars, bufVars, dialect, syncRowcount, pc,
                  calls, nIssued, closeCalls, closed, lateUse >>
  /\ last' = NoCall

\* module teardown: sys.is_finalizing() itself fails from now on
TearDown ==
  /\ interp = "finalizing"
  /\ interp' = "torn"
  /\ UNCHANGED << variant, ctx, loopClosed, wrapperVars, bufVars, dialect, syncRowcount, pc,
                  calls, nIssued, closeCalls, closed, lateUse >>
  /\ last' = NoCall

\* loop.close(): refused while the loop runs a suspended caller
LoopClose ==
  /\ ~loopClosed
  /\ \A t \in Tasks : ctx[t] = "greenlet" => pc[t] = Idle
  /\ loopClosed' = TRUE
  /\ UNCHANGED << variant, ctx, interp, wrapperVars, bufVars, dialect, syncRowcount, pc,
                  calls, nIssued, closeCalls, closed, lateUse >>
  /\ last' = NoCall

\* ---------------------------------------------------------- specification

SysArgs == {"sys", None}
ZombiesArgs == {"registry", None}

\* caller t issues one wrapper call: an execute with a statement of stmts, a
\* close with arguments of sysArgs and zArgs
Issue(t, stmts, sysArgs, zArgs) ==
  \/ \E operation \in stmts : fd_AsyncCursor_execute(t, operation)
  \/ fd_AsyncCursor_executemany(t, StmtInsert)
  \/ fd_AsyncCursor_fetchone(t)
  \/ fd_AsyncCursor_fetchmany(t, <<>>)
  \/ fd_AsyncCursor_fetchall(t)
  \/ fd_AsyncCursor_nextset(t)
  \/ \E sysArg \in sysArgs, zArg \in zArgs : fd_AsyncCursor_close(t, sysArg, zArg)
  \/ \E sysArg \in sysArgs, zArg \in zArgs : fd_AsyncConnection_close(t, sysArg, zArg)
  \/ fd_AsyncConnection_terminate(t)
  \/ fd_AsyncConnection_cursor(t)
  \/ fd_AsyncConnection_commit(t)
  \/ fd_AsyncConnection_rollback(t)
  \/ fdb_AsyncCursor_execute(t, StmtInsert)
  \/ fdb_AsyncCursor_executemany(t, StmtInsert)
  \/ fdb_AsyncCursor_fetchone(t)
  \/ fdb_AsyncCursor_fetchmany(t, <<>>)
  \/ fdb_AsyncCursor_fetchall(t)
  \/ fdb_AsyncCursor_close(t)
  \/ fdb_AsyncCursor_nextset(t)
  \/ fdb_AsyncConnection_cursor(t)
  \/ fdb_AsyncConnection_begin(t)
  \/ fdb_AsyncConnection_commit(t)
  \/ fdb_AsyncConnection_rollback(t)
  \/ fdb_AsyncConnection_close(t)
  \/ fdb_AsyncConnection_terminate(t)

\* the pools and the resuming callers
Pools ==
  \/ \E c \in calls : WorkerStart(c)
  \/ \E c \in calls, out \in BlockingOutcomes :
       \E rc \in (IF TouchesRowcount(c) THEN RowCounts ELSE {syncRowcount}) :
         WorkerFinish(c, out, rc)
  \/ \E t \in Tasks : Resume(t)

\* callers that may overlap, in a running interpreter with an open loop
Next ==
  \/ /\ nIssued < MaxCalls
     /\ \E t \in Tasks : Issue(t, {StmtInsert}, {"sys"}, {"registry"})
     /\ UNCHANGED dialect
  \/ Pools

Spec == Init /\ [][Next]_vars

\* calls issued one after another (the next call starts when the last has
\* returned), up to and during interpreter shutdown
NextSeq ==
  \/ /\ nIssued < MaxSeqCalls
     /\ AllIdle
     /\ \E t \in Tasks : Issue(t, {StmtInsert, StmtSelect}, SysArgs, ZombiesArgs)
     /\ UNCHANGED dialect
  \/ Pools
  \/ BeginFinalize
  \/ TearDown
  \/ LoopClose

SpecSeq == Init /\ [][NextSeq]_vars

\* the firebird_driver.py cursor alone, one call at a time: every statement
\* text, every row count the blocking cursor may report
InitRow == Init /\ variant = "fd"

NextRow ==
  \/ /\ nIssued < MaxRowCalls
     /\ AllIdle
     /\ \E t \in Tasks :
          \/ \E operation \in Statements : fd_AsyncCursor_execute(t, operation)
          \/ fd_AsyncCursor_executemany(t, StmtInsert)
          \/ fd_AsyncCursor_fetchone(t)
          \/ fd_AsyncCursor_close(t, "sys", "registry")
     /\ UNCHANGED dialect
  \/ Pools

SpecRow == InitRow /\ [][NextRow]_vars

\* two callers on one connection and its cursor, statements and transaction
\* ends only: enough calls for one caller to issue a second call while the
\* other has one in flight
NextOrder ==
  \/ /\ nIssued < MaxOrderCalls
     /\ \E t \in Tasks :
          \/ fd_AsyncCursor_execute(t, StmtInsert)
          \/ fd_AsyncCursor_fetchone(t)
          \/ fd_AsyncConnection_commit(t)
          \/ fdb_AsyncCursor_execute(t, StmtInsert)
          \/ fdb_AsyncCursor_fetchone(t)
          \/ fdb_AsyncConnection_commit(t)
     /\ UNCHANGED dialect
  \/ Pools

SpecOrder == Init /\ [][NextOrder]_vars

\* the firebird_driver.py cursor and its buffer: the dialect installs row
\* lists, the callers fetch one call at a time, before and after that
InitBuf == InitWith(BufArraySizes) /\ variant = "fd"

\* fetchmany sizes: not given, or 0 .. MaxRows + 1
BufSizes == {<<>>} \cup {<<n>> : n \in 0..(MaxRows + 1)}

NextBuf ==
  \/ /\ nIssued < MaxBufCalls
     /\ AllIdle
     /\ \E t \in Tasks :
          \/ fd_AsyncCursor_fetchone(t)
          \/ \E size \in BufSizes : fd_AsyncCursor_fetchmany(t, size)
          \/ fd_AsyncCursor_fetchall(t)
          \/ fd_AsyncCursor_close(t, "sys", "registry")
     /\ UNCHANGED dialect
  \/ /\ nIssued < MaxBufCalls
     /\ AllIdle
     /\ \E rows \in RowLists : fd_AsyncCursor__set_buffered_rows(rows, "d1")
     /\ UNCHANGED dialect
  \/ Pools

SpecBuf == InitBuf /\ [][NextBuf]_vars

\* the same cursor with every argument its methods accept: fetchmany with any
\* integer size, installations with any description (None included), and
\* execute and close in between
AnySizes == {<<>>} \cup {<<n>> : n \in (0 - MaxRows - 1)..(MaxRows + 1)}

NextInstall ==
  \/ /\ nIssued < MaxInstallCalls
     /\ AllIdle
     /\ \E t \in Tasks :
          \/ fd_AsyncCursor_execute(t, StmtInsert)
          \/ fd_AsyncCursor_fetchone(t)
          \/ \E size \in AnySizes : fd_AsyncCursor_fetchmany(t, size)
          \/ fd_AsyncCursor_fetchall(t)
          \/ fd_AsyncCursor_close(t, "sys", "registry")
     /\ UNCHANGED dialect
  \/ /\ nIssued < MaxInstallCalls
     /\ AllIdle
     /\ \E rows \in RowLists, description \in Descriptions \cup {None} :
          fd_AsyncCursor__set_buffered_rows(rows, description)
     /\ UNCHANGED dialect
  \/ Pools

\* one caller in a greenlet and one in a plain context
InitInstall ==
  /\ InitBuf
  /\ ctx = [t \in Tasks |-> IF t = "t1" THEN "greenlet" ELSE "plain"]

SpecInstall == InitInstall /\ [][NextInstall]_vars

\* what a blocking call made for the dialect may produce: a fetchall returns
\* a list of rows
DialectOutcomes(c) ==
  IF c.op = "fetchall"
  THEN {Rows(l) : l \in BatchRowLists} \cup {Raise("e1")}
  ELSE {Ret(Value), Raise("e1")}

PoolsDialect ==
  \/ \E c \in calls : WorkerStart(c)
  \/ \E c \in calls :
       \E out \in DialectOutcomes(c),
          rc \in (IF TouchesRowcount(c) THEN RowCounts ELSE {syncRowcount}) :
         WorkerFinish(c, out, rc)
  \/ \E t \in Tasks : Resume(t)

\* one batched insert with a returning clause on a cursor fresh from
\* AsyncConnection.cursor()
InitBatch == Init /\ variant = "fd"

NextBatch ==
  \/ \E t \in Tasks, n \in 0..MaxParams : fd_do_executemany_begin(t, n)
  \/ \E t \in Tasks : fd_do_executemany_execute(t)
  \/ \E t \in Tasks : fd_do_executemany_fetchall(t)
  \/ \E t \in Tasks, d \in Descriptions : fd_do_executemany_collect(t, d)
  \/ \E t \in Tasks : fd_do_executemany_raise(t)
  \/ \E t \in Tasks : fd_do_executemany_install(t)
  \/ PoolsDialect

SpecBatch == InitBatch /\ [][NextBatch]_vars

\* the same batched insert on a cursor that is used again: an earlier run has
\* left its buffer of two rows, unread, with its description and its total
InitReuse ==
  /\ variant = "fd"
  /\ ctx \in {f \in [Tasks -> {"greenlet", "plain"}] :
                f["t1"] = "plain" => f["t2"] = "plain"}
  /\ interp = "running"
  /\ loopClosed = FALSE
  /\ handle = [w \in Wrappers |-> H(w)]
  /\ _executor = [w \in Wrappers |-> None]
  /\ execShutdown = FALSE
  /\ _zombies = <<>>
  /\ _rowcount = 2
  /\ _buffered_rows = Buffer(<<"r1", "r2">>)
  /\ _buffered_index = 0
  /\ _buffered_description = "d1"
  /\ arraysize \in ArraySizes
  /\ fetched = <<>>
  /\ dialect = NoDialect
  /\ syncRowcount = 2
  /\ pc = [t \in Tasks |-> Idle]
  /\ calls = {}
  /\ nIssued = 0
  /\ last = NoCall
  /\ closeCalls = [w \in Wrappers |-> 0]
  /\ closed = [w \in Wrappers |-> FALSE]
  /\ lateUse = [w \in Wrappers |-> FALSE]

SpecReuse == InitReuse /\ [][NextBatch]_vars

\* one statement executed through do_execute or do_execute_no_params of the
\* firebird_driver.py dialect, with no context, a context that is no DDL, and
\* a DDL context
NextFdDDL ==
  \/ \E t \in Tasks, method \in {"do_execute", "do_execute_no_params"},
        context \in {NoContext, [NoContext EXCEPT !.present = TRUE],
                     [NoContext EXCEPT !.present = TRUE, !.isddl = TRUE]} :
       fd_do_execute(t, method, context)
  \/ \E t \in Tasks : fd_commit_ddl(t)
  \/ \E t \in Tasks : fd_do_execute_return(t)
  \/ \E t \in Tasks : fd_do_execute_raise(t)
  \/ PoolsDialect

SpecFdDDL == InitBatch /\ [][NextFdDDL]_vars

\* every statement-execution path of the firebird_driver.py dialect, with a
\* blocking driver that raises either of its exceptions
PathOutcomes(c) ==
  IF c.op = "fetchall"
  THEN {Rows(l) : l \in BatchRowLists} \cup {Raise(e) : e \in DriverErrors}
  ELSE BlockingOutcomes

NextPaths ==
  \/ \E t \in Tasks, method \in {"do_execute", "do_execute_no_params"},
        context \in {NoContext, [NoContext EXCEPT !.present = TRUE, !.isddl = TRUE]} :
       fd_do_execute(t, method, context)
  \/ \E t \in Tasks : fd_commit_ddl(t)
  \/ \E t \in Tasks : fd_do_execute_return(t)
  \/ \E t \in Tasks : fd_do_execute_raise(t)
  \/ \E t \in Tasks, n \in 0..MaxParams,
        context \in {NoContext,
                     [NoContext EXCEPT !.present = TRUE, !.isinsert = TRUE,
                                       !.compiled = TRUE,
                                       !.effective_returning = TRUE]} :
       fd_do_executemany(t, context, n)
  \/ \E t \in Tasks : fd_do_executemany_native_return(t)
  \/ \E t \in Tasks : fd_do_executemany_execute(t)
  \/ \E t \in Tasks : fd_do_executemany_fetchall(t)
  \/ \E t \in Tasks, d \in Descriptions : fd_do_executemany_collect(t, d)
  \/ \E t \in Tasks : fd_do_executemany_raise(t)
  \/ \E t \in Tasks : fd_do_executemany_install(t)
  \/ \E c \in calls : WorkerStart(c)
  \/ \E c \in calls :
       \E out \in PathOutcomes(c),
          rc \in (IF TouchesRowcount(c) THEN RowCounts ELSE {syncRowcount}) :
         WorkerFinish(c, out, rc)
  \/ \E t \in Tasks : Resume(t)

SpecPaths == InitInstall /\ [][NextPaths]_vars

\* the firebird_driver.py wrappers closed by callers that come one after
\* another, with worker threads that do not stall: a call that can be taken
\* up, finished or handed back to its caller eventually is
NextLive ==
  \/ /\ nIssued < MaxRowCalls
     /\ AllIdle
     /\ \E t \in Tasks :
          \/ fd_AsyncCursor_execute(t, StmtInsert)
          \/ fd_AsyncConnection_commit(t)
          \/ fd_AsyncCursor_close(t, "sys", "registry")
          \/ fd_AsyncConnection_close(t, "sys", "registry")
          \/ fd_AsyncConnection_terminate(t)
     /\ UNCHANGED dialect
  \/ Pools

SpecLive == InitRow /\ [][NextLive]_vars /\ WF_vars(Pools)

\* do_executemany with every kind of context, on a cursor that was used
\* before (an execute, a close)
Contexts ==
  {NoContext} \cup
  {[NoContext EXCEPT !.present = TRUE, !.isinsert = i, !.compiled = c,
                     !.effective_returning = r] :
     i \in BOOLEAN, c \in BOOLEAN, r \in BOOLEAN}

NextNative ==
  \/ /\ nIssued < MaxRowCalls - 1
     /\ AllIdle
     /\ dialect.at = "idle"
     /\ \E t \in Tasks :
          \/ fd_AsyncCursor_execute(t, StmtInsert)
          \/ fd_AsyncCursor_close(t, "sys", "registry")
     /\ UNCHANGED dialect
  \/ \E t \in Tasks, context \in Contexts, n \in 0..MaxParams :
       fd_do_executemany(t, context, n)
  \/ \E t \in Tasks : fd_do_executemany_native_return(t)
  \/ \E t \in Tasks : fd_do_executemany_execute(t)
  \/ \E t \in Tasks : fd_do_executemany_fetchall(t)
  \/ \E t \in Tasks, d \in Descriptions : fd_do_executemany_collect(t, d)
  \/ \E t \in Tasks : fd_do_executemany_raise(t)
  \/ \E t \in Tasks : fd_do_executemany_install(t)
  \/ PoolsDialect

SpecNative == InitInstall /\ [][NextNative]_vars

\* the wrappers of fdb.py
InitFdb == Init /\ variant = "fdb"

\* one statement of the fdb dialect, DDL or not, and its post_exec
NextDDL ==
  \/ \E t \in Tasks, isddl \in BOOLEAN : fdb_statement_execute(t, isddl)
  \/ \E t \in Tasks : fdb_post_exec_not_ddl(t)
  \/ \E t \in Tasks : fdb_post_exec_close(t)
  \/ \E t \in Tasks : fdb_post_exec_commit(t)
  \/ \E t \in Tasks : fdb_post_exec_begin(t)
  \/ \E t \in Tasks : fdb_post_exec_return(t)
  \/ \E t \in Tasks : fdb_post_exec_raise(t)
  \/ PoolsDialect

SpecDDL == InitFdb /\ [][NextDDL]_vars

\* one driver exception and its disconnect classification
NextDisconnect ==
  \/ \E e \in DisconnectExceptions : fdb_exception_caught(e)
  \/ fdb_is_disconnect_called

SpecDisconnect == InitFdb /\ [][NextDisconnect]_vars

\* one failed statement and the hook that looks at its exception, in either
\* dialect
NextIntegrity ==
  \/ \E e \in IntegrityExceptions : exception_caught(e)
  \/ \E h \in {"dbapi_exception_translation", "wrap_dbapi_exception"} : hook_called(h)
  \/ hook_called("do_execute")

SpecIntegrity == Init /\ [][NextIntegrity]_vars

\* fdb.py before any connection exists: no wrapper, no pool
InitConnect ==
  /\ variant = "fdb"
  /\ ctx \in {f \in [Tasks -> {"greenlet", "plain"}] :
                f["t1"] = "plain" => f["t2"] = "plain"}
  /\ interp = "running"
  /\ loopClosed = FALSE
  /\ handle = [w \in Wrappers |-> None]
  /\ _executor = [w \in Wrappers |-> None]
  /\ execShutdown = FALSE
  /\ _zombies = <<>>
  /\ _rowcount = -1
  /\ _buffered_rows = NoBuffer
  /\ _buffered_index = 0
  /\ _buffered_description = None
  /\ arraysize \in ArraySizes
  /\ fetched = <<>>
  /\ dialect = NoDialect
  /\ syncRowcount = -1
  /\ pc = [t \in Tasks |-> Idle]
  /\ calls = {}
  /\ nIssued = 0
  /\ last = NoCall
  /\ closeCalls = [w \in Wrappers |-> 0]
  /\ closed = [w \in Wrappers |-> FALSE]
  /\ lateUse = [w \in Wrappers |-> FALSE]

\* a connect, and calls on the connection it returned, one after another
NextConnect ==
  \/ /\ nIssued < MaxConnectCalls
     /\ AllIdle
     /\ \E t \in Tasks :
          \/ fdb_AsyncDBAPI_connect(t)
          \/ handle["conn"] # None /\ fdb_AsyncConnection_commit(t)
          \/ handle["conn"] # None /\ fdb_AsyncConnection_close(t)
     /\ UNCHANGED dialect
  \/ Pools

SpecConnect == InitConnect /\ [][NextConnect]_vars

\* ------------------------------------------------------------ vocabulary

\* the call issued by the step just taken: queued, or already returned
Issued == IF \E c \in calls : c.id = nIssued
          THEN CHOOSE c \in calls : c.id = nIssued
          ELSE last

\* a firebird_driver.py close()/terminate() call has just returned
FdCloseReturned ==
  variant = "fd" /\ last.st = "returned" /\ IsClose(last.op)

\* occurrences of x in the sequence s
Count(s, x) == Cardinality({i \in 1..Len(s) : s[i] = x})

\* close() was called where a cooperative close is safe: the interpreter is
\* running and the finalization check works, the caller carries the context
\* marker, the loop is open
SafeToClose(c) ==
  /\ c.arg[1] # None
  /\ c.interp = "running"
  /\ ctx[c.task] = "greenlet"
  /\ ~c.lc

\* the lifecycle state of a wrapper
Lifecycle(w) ==
  IF \E c \in calls : c.w = w /\ IsClose(c.op) THEN "CLOSING"
  ELSE IF handle[w] # None THEN "OPEN"
  ELSE IF H(w) \in Range(_zombies) THEN "ZOMBIE"
  ELSE "CLOSED"

\* ---------------------------------------------------------------- claims

\* C1: firebird_driver.py close()/terminate() calls issued one after another on
\* one wrapper never raise and invoke the blocking close() at most once; a call
\* that follows a returned close returns at once and changes nothing (the
\* handle reference stays None, the registry is as it was).
C1_CloseOnce ==
  variant = "fd" =>
    /\ \A w \in Wrappers : closeCalls[w] <= 1
    /\ FdCloseReturned => last.res = Ret(None)

C1_LaterCallsChangeNothing ==
  (variant = "fd" /\ nIssued' = nIssued + 1 /\ IsClose(Issued'.op)
     /\ closed[Issued'.w])
  => /\ Issued'.st = "returned"
     /\ Issued'.res = Ret(None)
     /\ handle[Issued'.w] = None
     /\ UNCHANGED << handle, _zombies, closeCalls, calls, _executor, execShutdown,
                     _rowcount, bufVars, syncRowcount >>

C1_CloseIdempotent == []C1_CloseOnce /\ [][C1_LaterCallsChangeNothing]_vars

\* a second close has returned on a wrapper whose blocking close ran once
C1_Witness ==
  /\ FdCloseReturned
  /\ ~last.held
  /\ closeCalls[last.w] = 1

\* C2: when a firebird_driver.py close() with the default registry returns from
\* a wrapper that held its handle, the reference is cleared and exactly one
\* holds: the blocking close() returned normally and the handle is not in the
\* registry, or the handle is in the registry (once), which is where it goes
\* when the blocking close() raised.
C2_ClosedXorZombie ==
  (FdCloseReturned /\ last.held /\ last.arg[2] = "registry")
  => /\ handle[last.w] = None
     /\ Count(_zombies, H(last.w)) <= 1
     /\ (last.bres = Ret(Value)) # (H(last.w) \in Range(_zombies))

\* the bridged blocking close() raised and the handle went to the registry
C2_Witness ==
  /\ FdCloseReturned
  /\ last.held
  /\ last.arg[2] = "registry"
  /\ IsRaise(last.bres)
  /\ H(last.w) \in Range(_zombies)

\* C3 as stated: close() invokes the blocking close only where a cooperative
\* close is safe; anywhere else it makes no blocking call, does not raise,
\* appends the handle to the registry and clears the reference.
C3_UnsafeCloseGoesToRegistry ==
  (FdCloseReturned /\ last.held)
  => /\ last.n > 0 => SafeToClose(last)
     /\ ~SafeToClose(last) =>
          /\ last.n = 0
          /\ last.res = Ret(None)
          /\ handle[last.w] = None
          /\ H(last.w) \in Range(_zombies)

\* C3 as amended: the handle is appended to the registry the caller passed;
\* with zombies=None nothing is appended.
C3_UnsafeCloseMakesNoCall ==
  (FdCloseReturned /\ last.held)
  => /\ last.n > 0 => SafeToClose(last)
     /\ ~SafeToClose(last) =>
          /\ last.n = 0
          /\ last.res = Ret(None)
          /\ handle[last.w] = None
          /\ (last.arg[2] = "registry") = (H(last.w) \in Range(_zombies))

\* close() ran where the finalization check itself fails, in a greenlet with
\* an open loop, and handed the handle to the registry
C3_Witness ==
  /\ FdCloseReturned
  /\ last.held
  /\ last.interp = "torn"
  /\ last.arg[1] # None
  /\ ctx[last.task] = "greenlet"
  /\ ~last.lc
  /\ last.n = 0
  /\ H(last.w) \in Range(_zombies)

\* C4 as stated: in fdb.py, once a connection close()/terminate() has returned
\* the reference to the blocking connection is cleared, and no further close
\* (of the connection or of the cursor) reaches the blocking close() a second
\* time.
C4_FdbCloseOnce ==
  variant = "fdb" =>
    /\ \A w \in Wrappers : closeCalls[w] <= 1
    /\ closed["conn"] => handle["conn"] = None

\* C5 as stated: a wrapper whose close()/terminate() has completed is CLOSED or
\* ZOMBIE for good, and no later wrapper operation invokes a method of the
\* handle it released.
C5_OneWayLifecycle ==
  \A w \in Wrappers :
    closed[w] => /\ Lifecycle(w) \in {"CLOSED", "ZOMBIE"}
                 /\ ~lateUse[w]

\* an operation goes through _exec (the firebird_driver.py connection's
\* cursor() calls the blocking connection directly)
ViaExec(c) == ~(variant = "fd" /\ c.op = "cursor")

\* the pool a caller with the context marker must be bridged to
MarkerPool(c) == IF c.ex = None THEN "shared" ELSE c.ex

\* C6: a call made through _exec by a caller that carries the context marker
\* is queued at a worker pool (the wrapper's dedicated executor when it holds
\* one, the shared pool otherwise), never runs inline on the loop thread, keeps
\* its caller suspended until the blocking call has finished, and hands the
\* caller what the blocking call produced.
C6_MarkerBridgesToWorker ==
  /\ \A c \in calls :
       (ctx[c.task] = "greenlet" /\ ViaExec(c))
       => /\ c.pool = MarkerPool(c)
          /\ c.pool # "inline"
          /\ pc[c.task] = Waiting(c.id)
  /\ (last.st = "returned" /\ ctx[last.task] = "greenlet" /\ ViaExec(last)
        /\ last.n > 0)
     => /\ last.pool = MarkerPool(last)
        /\ last.bres # NotCalled
        /\ ~(variant = "fd" /\ IsClose(last.op)) => last.res = last.bres

\* a marked caller got back the value its call produced on the dedicated
\* executor
C6_Witness ==
  /\ last.st = "returned"
  /\ ctx[last.task] = "greenlet"
  /\ last.pool = "ded"
  /\ last.n = 1
  /\ last.bres = Ret(Value)
  /\ last.res = Ret(Value)

\* C7 as stated: without the context marker every call made through _exec
\* runs inline on the calling thread, whether or not the wrapper holds a
\* dedicated executor.
C7_NoMarkerAlwaysInline ==
  \A c \in calls : (ctx[c.task] = "plain" /\ ViaExec(c)) => c.pool = "inline"

\* C7 as amended: without the context marker a call runs inline when the
\* wrapper holds no dedicated executor; when it holds one the call is submitted
\* to that executor (never to the shared pool) and the caller blocks on it.
C7_NoMarkerInlineUnlessDedicated ==
  \A c \in calls :
    (ctx[c.task] = "plain" /\ ViaExec(c))
    => /\ c.pool = (IF c.ex = None THEN "inline" ELSE c.ex)
       /\ c.pool # "shared"
       /\ pc[c.task] = Waiting(c.id)

\* an unmarked caller's call is running on the dedicated executor
C7_Witness ==
  \E c \in calls :
    /\ ctx[c.task] = "plain"
    /\ c.ex = "ded"
    /\ c.pool = "ded"
    /\ c.st = "running"

\* the operations C8 speaks of
C8_Ops ==
  { "execute", "executemany", "fetchone", "fetchmany", "fetchall", "nextset",
    "commit", "rollback", "cursor" }

\* C8: a call of execute, executemany, fetchone, fetchmany, fetchall, nextset,
\* commit, rollback or cursor invokes its blocking operation at most once, and
\* when that operation raises the caller gets that very exception.
C8_NoRetrySameException ==
  /\ \A c \in calls : c.op \in C8_Ops => c.n <= 1
  /\ (last.st = "returned" /\ last.op \in C8_Ops)
     => /\ last.n <= 1
        /\ IsRaise(last.bres) => last.res = last.bres

\* an execute whose blocking call raised e2 has raised e2 to its caller
C8_Witness ==
  /\ last.st = "returned"
  /\ last.op = "execute"
  /\ last.n = 1
  /\ last.bres = Raise("e2")
  /\ last.res = Raise("e2")

\* C9: of two calls issued by one task, the later one is not started on a
\* worker before the earlier one has finished, whatever the other task does.
C9_IssueOrder ==
  \A c \in calls, d \in calls :
    (c.task = d.task /\ c.id < d.id /\ d.st \in {"running", "done"})
    => c.st = "done"

\* a task's second call, issued right after its first returned, is running
\* while the other task has a call of its own in flight
C9_Witness ==
  \E c \in calls, d \in calls :
    /\ c.prev # 0
    /\ c.st = "running"
    /\ d.task # c.task
    /\ d.st = "running"

\* character c, case-folded
FoldChar(c) ==
  IF \E i \in 1..Len(Upper) : Upper[i] = c
  THEN Lower[CHOOSE i \in 1..Len(Upper) : Upper[i] = c]
  ELSE c

\* word stands at position k of s, case aside
WordAt(s, k, word) ==
  /\ k + Len(word) - 1 <= Len(s)
  /\ \A j \in 1..Len(word) : FoldChar(s[k + j - 1]) = word[j]

\* the text of s, leading whitespace and case aside, starts with select or with
ReadOnlyText(s) ==
  \E k \in 1..Len(s) :
    /\ \A i \in 1..(k - 1) : s[i] \in Whitespace
    /\ s[k] \notin Whitespace
    /\ \/ WordAt(s, k, <<"s", "e", "l", "e", "c", "t">>)
       \/ WordAt(s, k, <<"w", "i", "t", "h">>)

\* C10 as stated: after execute() of a statement whose trimmed, case-folded
\* text starts with SELECT or WITH, the cursor's rowcount is -1 whatever the
\* blocking cursor reports.
C10_ReadOnlyRowcount ==
  (variant = "fd" /\ last.st = "returned" /\ last.op = "execute"
     /\ ReadOnlyText(last.arg))
  => _rowcount = -1

\* C10 as amended: that holds for a cursor that still holds its blocking
\* cursor, whether the blocking execute returned or raised; execute() on a
\* closed cursor raises AttributeError and leaves rowcount as it was.
C10_OpenCursorRowcount ==
  (variant = "fd" /\ last.st = "returned" /\ last.op = "execute"
     /\ ReadOnlyText(last.arg))
  => IF last.held
     THEN _rowcount = -1
     ELSE last.n = 0 /\ last.res = Raise("AttributeError")

C10_ClosedCursorKeepsRowcount ==
  (variant = "fd" /\ nIssued' = nIssued + 1 /\ Issued'.op = "execute"
     /\ handle["cur"] = None)
  => _rowcount' = _rowcount

C10_ReadOnlyRowcountWhileOpen ==
  []C10_OpenCursorRowcount /\ [][C10_ClosedCursorKeepsRowcount]_vars

\* a padded, mixed-case SELECT has been executed on an open cursor whose
\* blocking cursor reports two rows
C10_Witness ==
  /\ variant = "fd"
  /\ last.st = "returned"
  /\ last.op = "execute"
  /\ last.arg = StmtSelectMixed
  /\ last.held
  /\ last.n = 1
  /\ syncRowcount = 2
  /\ _rowcount = -1

\* C11 as stated: after every executemany() of the firebird_driver.py cursor
\* its rowcount is -1, whatever the blocking cursor reports and whatever was
\* cached before.
C11_ExecutemanyRowcount ==
  (variant = "fd" /\ last.st = "returned" /\ last.op = "executemany")
  => _rowcount = -1

\* C11 as amended: that holds for a cursor that still holds its blocking
\* cursor, whether the blocking executemany returned or raised; on a closed
\* cursor executemany() raises AttributeError and leaves rowcount as it was.
C11_OpenCursorRowcount ==
  (variant = "fd" /\ last.st = "returned" /\ last.op = "executemany")
  => IF last.held
     THEN _rowcount = -1
     ELSE last.n = 0 /\ last.res = Raise("AttributeError")

C11_ClosedCursorKeepsRowcount ==
  (variant = "fd" /\ nIssued' = nIssued + 1 /\ Issued'.op = "executemany"
     /\ handle["cur"] = None)
  => _rowcount' = _rowcount

C11_ExecutemanyRowcountWhileOpen ==
  []C11_OpenCursorRowcount /\ [][C11_ClosedCursorKeepsRowcount]_vars

\* an executemany has returned on an open cursor whose blocking cursor
\* reports two rows
C11_Witness ==
  /\ variant = "fd"
  /\ last.st = "returned"
  /\ last.op = "executemany"
  /\ last.held
  /\ last.n = 1
  /\ syncRowcount = 2
  /\ _rowcount = -1

\* C12: after execute() of a statement that is not a SELECT or WITH query, on
\* a cursor that holds its blocking cursor, rowcount is the blocking cursor's
\* row count at that moment; afterwards rowcount changes only when an execute
\* or executemany returns, whatever the blocking cursor reports meanwhile.
C12_AdoptsRowcount ==
  (variant = "fd" /\ last.st = "returned" /\ last.op = "execute"
     /\ ~ReadOnlyText(last.arg) /\ last.held)
  => _rowcount = syncRowcount

C12_KeptUntilNextExecute ==
  (variant = "fd" /\ _rowcount' # _rowcount)
  => /\ last'.st = "returned"
     /\ last'.op \in {"execute", "executemany"}

FetchOps == {"fetchone", "fetchmany", "fetchall"}

\* every fetch served from the buffer since it was installed was one of ops
OnlyOps(ops) == \A k \in 1..Len(fetched) : fetched[k][1] \in ops

\* no fetch is at the blocking cursor, and the fetch that has just returned
\* did not go there
NoLiveFetch ==
  /\ \A c \in calls : c.op \notin FetchOps
  /\ (last.st = "returned" /\ last.op \in FetchOps)
     => last.n = 0 /\ last.bres = NotCalled

\* C13: after _set_buffered_rows installed N rows, the k-th of consecutive
\* fetchone() calls returns the k-th row for k <= N and None for k > N, and
\* none of them reaches the blocking cursor.
C13_FetchoneRoundTrip ==
  (variant = "fd" /\ _buffered_rows # NoBuffer /\ OnlyOps({"fetchone"}))
  => /\ \A k \in 1..Len(fetched) :
          fetched[k][2] = IF k <= Len(_buffered_rows[1])
                          THEN Ret(_buffered_rows[1][k])
                          ELSE Ret(None)
     /\ NoLiveFetch

\* two different rows were installed and three fetchone calls returned the
\* first, the second, then None
C13_Witness ==
  /\ _buffered_rows # NoBuffer
  /\ Len(_buffered_rows[1]) = 2
  /\ _buffered_rows[1][1] # _buffered_rows[1][2]
  /\ Len(fetched) = 3
  /\ OnlyOps({"fetchone"})
  /\ fetched[1][2] = Ret(_buffered_rows[1][1])
  /\ fetched[3][2] = Ret(None)

\* C14: a fetchall() right after _set_buffered_rows installed N rows returns
\* the N rows in order and leaves the buffer exhausted: every fetchall after
\* it returns an empty list and every fetchone after it returns None.
C14_FetchallRoundTrip ==
  (variant = "fd" /\ _buffered_rows # NoBuffer /\ fetched # <<>>
     /\ OnlyOps({"fetchall", "fetchone"}) /\ fetched[1][1] = "fetchall")
  => /\ fetched[1][2] = Rows(_buffered_rows[1])
     /\ _buffered_index = Len(_buffered_rows[1])
     /\ \A k \in 2..Len(fetched) :
          IF fetched[k][1] = "fetchall"
          THEN fetched[k][2] = Rows(<<>>)
          ELSE fetched[k][2] = Ret(None)
     /\ NoLiveFetch

\* fetchall returned two installed rows, a second fetchall returned nothing
\* and a fetchone returned None
C14_Witness ==
  /\ _buffered_rows # NoBuffer
  /\ Len(_buffered_rows[1]) = 2
  /\ Len(fetched) = 3
  /\ fetched[1] = <<"fetchall", Rows(_buffered_rows[1])>>
  /\ fetched[2] = <<"fetchall", Rows(<<>>)>>
  /\ fetched[3][1] = "fetchone"
  /\ fetched[3][2] = Ret(None)

\* the smaller of two numbers
Min(a, b) == IF a < b THEN a ELSE b

\* C15: with a buffer installed, fetchmany(size), size >= 0, returns the next
\* min(size, remaining) rows from the buffer position and advances the
\* position by as many; without a size it takes the blocking cursor's
\* arraysize (1 when the cursor holds no blocking cursor any more); the
\* blocking cursor's fetchmany is not called.
C15_FetchmanyStep ==
  (variant = "fd" /\ nIssued' = nIssued + 1 /\ _buffered_rows # NoBuffer
     /\ last'.st = "returned" /\ last'.op = "fetchmany")
  => LET rows == _buffered_rows[1]
         size == IF last'.arg # <<>> THEN last'.arg[1]
                 ELSE IF handle["cur"] # None THEN arraysize ELSE 1
         k == Min(size, Len(rows) - _buffered_index)
     IN  /\ last'.res = Rows(SubSeq(rows, _buffered_index + 1, _buffered_index + k))
         /\ _buffered_index' = _buffered_index + k
         /\ last'.n = 0
         /\ calls' = calls

C15_FetchmanyFromBuffer == [][C15_FetchmanyStep]_vars

\* fetchmany() without a size returned both rows of the buffer from a cursor
\* whose blocking cursor has arraysize 2
C15_Witness ==
  /\ last.st = "returned"
  /\ last.op = "fetchmany"
  /\ last.arg = <<>>
  /\ last.held
  /\ arraysize = 2
  /\ _buffered_rows # NoBuffer
  /\ Len(_buffered_rows[1]) = 2
  /\ last.res = Rows(_buffered_rows[1])
  /\ _buffered_index = 2

\* C16: once a buffer is installed it stays installed, and no fetchone,
\* fetchmany or fetchall reaches the blocking cursor: reads from the blocking
\* cursor all come before the reads from the buffer.
C16_BufferedNoLive ==
  (variant = "fd" /\ _buffered_rows # NoBuffer) => NoLiveFetch

C16_BufferStays ==
  (variant = "fd" /\ _buffered_rows # NoBuffer) => _buffered_rows' # NoBuffer

C16_BufferOnly == []C16_BufferedNoLive /\ [][C16_BufferStays]_vars

\* a fetchall on an exhausted buffer has returned without a blocking call
C16_Witness ==
  /\ _buffered_rows # NoBuffer
  /\ Len(fetched) >= 2
  /\ _buffered_index = Len(_buffered_rows[1])
  /\ last.st = "returned"
  /\ last.op = "fetchall"
  /\ last.res = Rows(<<>>)
  /\ last.n = 0

\* the lists of ls, one after another
RECURSIVE Concat(_)
Concat(ls) == IF ls = <<>> THEN <<>> ELSE Head(ls) \o Concat(Tail(ls))

\* the numbers of ns, added up
RECURSIVE Sum(_)
Sum(ns) == IF ns = <<>> THEN 0 ELSE Head(ns) + Sum(Tail(ns))

IsPrefix(p, s) == Len(p) <= Len(s) /\ SubSeq(s, 1, Len(p)) = p

\* C18: after a DDL statement has executed, post_exec calls close() on the
\* statement's cursor, then commit(), then begin() on the connection, each once
\* and each reaching its blocking method once; commit() follows whatever
\* close() did; begin() follows a commit() that returned. After a statement
\* that is no DDL none of the three is called. post_exec raises only what
\* commit() or begin() raised.
C18_PostExecOrder ==
  (dialect.op = "post_exec" /\ dialect.at \in {"done", "raised"}
     /\ ~IsRaise(dialect.got[1]))
  => IF ~dialect.isddl
     THEN dialect.at = "done" /\ dialect.did = <<"execute">>
     ELSE /\ IsPrefix(dialect.did, <<"execute", "close", "commit", "begin">>)
          /\ Len(dialect.did) >= 3
          /\ \A k \in 1..Len(dialect.counts) : dialect.counts[k] = 1
          /\ dialect.at = "done" => Len(dialect.did) = 4
          /\ dialect.at = "raised"
             => /\ dialect.res = dialect.got[Len(dialect.got)]
                /\ IsRaise(dialect.res)
          /\ closeCalls["cur"] = 1

\* the post_exec of a DDL statement has returned after commit() and begin(),
\* although closing the cursor raised
C18_Witness ==
  /\ dialect.op = "post_exec"
  /\ dialect.isddl
  /\ dialect.at = "done"
  /\ dialect.did = <<"execute", "close", "commit", "begin">>
  /\ IsRaise(dialect.got[2])
  /\ dialect.counts = <<1, 1, 1, 1>>

\* the exception carries a code in its second argument
HasCode(e) == Len(e.args) >= 2 /\ e.args[2][1] = "int"

\* the message of the exception, its first argument, contains the text
MessageContains(e, text) ==
  /\ Len(e.args) >= 1
  /\ e.args[1][1] = "str"
  /\ \E k \in 1..Len(e.args[1][2]) :
       /\ k + Len(text) - 1 <= Len(e.args[1][2])
       /\ \A j \in 1..Len(text) : e.args[1][2][k + j - 1] = text[j]

\* C19: for a driver DatabaseError, is_disconnect returns true if the second
\* argument is one of 335546001, 335546003, 335546005 or the message contains
\* "Error writing data to the connection", and false if it carries another
\* code and no such message.
C19_DisconnectByCodeOrMessage ==
  (dialect.op = "is_disconnect" /\ dialect.at = "done"
     /\ dialect.exc.cls \in {"DatabaseError", "ProgrammingError"})
  => LET e == dialect.exc
         code_hit == HasCode(e) /\ e.args[2][2] \in {335546001, 335546003, 335546005}
         message_hit == MessageContains(e, DISCONNECT_TEXT)
     IN  /\ (code_hit \/ message_hit) => dialect.res = Ret("True")
         /\ (HasCode(e) /\ ~code_hit /\ ~message_hit) => dialect.res = Ret("False")

\* the same for the exceptions that have a second argument
C19_ExceptionsWithCode ==
  (dialect.op = "is_disconnect" /\ dialect.at = "done" /\ Len(dialect.exc.args) < 2)
  \/ C19_DisconnectByCodeOrMessage

\* s contains word, case aside
HasWord(s, word) == \E k \in 1..Len(s) : WordAt(s, k, word)

\* the message names a violation and a primary, unique or foreign key or a
\* constraint
IntegrityMessage(s) ==
  /\ HasWord(s, <<"v", "i", "o", "l", "a", "t", "i", "o", "n">>)
  /\ \/ HasWord(s, <<"p", "r", "i", "m", "a", "r", "y">>)
     \/ HasWord(s, <<"u", "n", "i", "q", "u", "e">>)
     \/ HasWord(s, <<"f", "o", "r", "e", "i", "g", "n">>)
     \/ HasWord(s, <<"c", "o", "n", "s", "t", "r", "a", "i", "n", "t">>)

\* C20: a reclassification hook of either dialect produces IntegrityError
\* exactly when the message, case aside, contains "violation" and one of
\* "primary", "unique", "foreign", "constraint"; every hook of the dialect
\* decides the same on the exception.
C20_IntegrityPredicate ==
  (dialect.op = "reclassify" /\ dialect.at = "done")
  => /\ dialect.res[2] = "IntegrityError" <=> IntegrityMessage(ExcStr(dialect.exc))
     /\ \A v \in {"fd", "fdb"} : \A h \in Hooks[v] :
          Hook(v, h, dialect.exc)[2] = "IntegrityError" <=> dialect.res[2] = "IntegrityError"

\* do_execute of the firebird-driver dialect has raised IntegrityError for a
\* message that names a violation, in capitals, and a unique key
C20_Witness ==
  /\ dialect.op = "reclassify"
  /\ dialect.at = "done"
  /\ variant = "fd"
  /\ dialect.did = <<"do_execute">>
  /\ StartsWith(ExcStr(dialect.exc), <<"V", "I", "O", "L", "A", "T", "I", "O", "N">>)
  /\ HasWord(ExcStr(dialect.exc), <<"u", "n", "i", "q", "u", "e">>)
  /\ dialect.res = Raise("IntegrityError")

\* what a close() of the connection with its default arguments does, told from
\* the returned call c and the step that returned it, without looking at the
\* name the call was made under
ConnectionCloseEffect(c) ==
  IF variant = "fd"
  THEN /\ c.res = Ret(None)
       /\ UNCHANGED << _executor, execShutdown >>
       /\ IF ~c.held
          THEN c.n = 0 /\ UNCHANGED << handle, _zombies >>
          ELSE /\ handle' = [handle EXCEPT !["conn"] = None]
               /\ c.n = IF SafeToClose(c) THEN 1 ELSE 0
               /\ _zombies' = IF SafeToClose(c) /\ ~IsRaise(c.bres)
                              THEN _zombies
                              ELSE Append(_zombies, H("conn"))
  ELSE /\ UNCHANGED << handle, _zombies >>
       /\ _executor' = [_executor EXCEPT !["conn"] = None]
       /\ execShutdown' = (execShutdown \/ c.ex # None)
       /\ IF ctx[c.task] = "greenlet" /\ c.lc
          THEN c.n = 0 /\ c.res = Raise("RuntimeError")
          ELSE c.n = 1 /\ c.res = c.bres

\* C21: terminate() of an AsyncConnection, in both variants and from every
\* state, does what close() with the default arguments does: the same blocking
\* close() calls, the same wrapper state afterwards, the same effect on the
\* registry, the same result; it never raises a missing-method error.
C21_TerminateStep ==
  (/\ last'.st = "returned"
   /\ last'.w = "conn"
   /\ IsClose(last'.op)
   /\ (variant = "fd" /\ last'.op = "close") => last'.arg = <<"sys", "registry">>)
  => /\ ConnectionCloseEffect(last')
     /\ last'.op = "terminate" => last'.res # Raise("AttributeError")

C21_TerminateIsClose == [][C21_TerminateStep]_vars

\* a terminate() has returned after its blocking close() raised: in
\* firebird_driver.py with the handle in the registry, in fdb.py with the
\* dedicated pool shut down
C21_Witness ==
  /\ last.st = "returned"
  /\ last.op = "terminate"
  /\ last.n = 1
  /\ IsRaise(last.bres)
  /\ IF variant = "fd"
     THEN _zombies = <<H("conn")>> /\ handle["conn"] = None
     ELSE last.ex = "ded" /\ execShutdown /\ _executor["conn"] = None

\* C22 as stated: the registry only grows at its end, and a handle is appended
\* only by a close made while the interpreter is finalizing or the loop is
\* closed.
C22_GrowsStep ==
  /\ IsPrefix(_zombies, _zombies')
  /\ _zombies' # _zombies => (last'.interp # "running" \/ last'.lc)

C22_AppendOnlyWhenUnsafe == [][C22_GrowsStep]_vars

\* C22 as amended: the registry only grows at its end, one handle at a time;
\* a handle is appended only by a close()/terminate() of the wrapper that held
\* it, called with a registry, and only when a cooperative close was not safe
\* (finalizing or failing check, no sys, no context marker, loop closed) or
\* the blocking close() raised.
C22_AppendStep ==
  /\ IsPrefix(_zombies, _zombies')
  /\ _zombies' # _zombies
     => /\ variant = "fd"
        /\ last'.st = "returned" /\ IsClose(last'.op) /\ last'.held
        /\ last'.arg[2] = "registry"
        /\ _zombies' = Append(_zombies, H(last'.w))
        /\ ~SafeToClose(last') \/ (last'.n = 1 /\ IsRaise(last'.bres))

C22_AppendOnly == [][C22_AppendStep]_vars

\* the registry holds both handles, the second put there by a close() in a
\* running interpreter with an open loop
C22_Witness ==
  /\ Len(_zombies) = 2
  /\ FdCloseReturned
  /\ last.held
  /\ last.interp = "running"
  /\ ~last.lc
  /\ _zombies[2] = H(last.w)

\* an fdb connect() has just returned or raised
ConnectReturned == variant = "fdb" /\ last.st = "returned" /\ last.op = "connect"

\* C23: when fdb's connect() ends, a failed attempt made in a greenlet has
\* left its one-worker pool shut down, the caller gets the failure of the
\* attempt and no connection exists; a successful one has returned a
\* connection that owns the pool, which is running. A connect() from a plain
\* context allocates no pool.
C23_ConnectPool ==
  ConnectReturned
  => /\ (last.pool = "ded") = (ctx[last.task] = "greenlet")
     /\ last.n = 1
     /\ IF IsRaise(last.bres)
        THEN /\ last.res = last.bres
             /\ handle["conn"] = None
             /\ _executor["conn"] = None
             /\ last.pool = "ded" => execShutdown
        ELSE /\ ~IsRaise(last.res)
             /\ handle["conn"] = H("conn")
             /\ _executor["conn"] = (IF last.pool = "ded" THEN "ded" ELSE None)
             /\ last.pool = "ded" => ~execShutdown

\* a connect() made in a greenlet has failed and its pool is shut down
C23_Witness ==
  /\ ConnectReturned
  /\ ctx[last.task] = "greenlet"
  /\ IsRaise(last.res)
  /\ execShutdown

\* the step issues a wrapper call of fdb.py on a wrapper of ws, made with a
\* dedicated executor that has been shut down by now
IssuedAfterShutdown(ws) ==
  /\ variant = "fdb"
  /\ _executor["cur"] = "ded"
  /\ execShutdown
  /\ nIssued' = nIssued + 1
  /\ Issued'.w \in ws

\* the call the step issued failed at once with the submission error and
\* reached no pool and no blocking method
SubmissionFailed ==
  /\ Issued'.st = "returned"
  /\ Issued'.res = Raise("RuntimeError")
  /\ Issued'.pool = "none"
  /\ Issued'.n = 0
  /\ UNCHANGED calls

\* C24: in fdb.py a call on a connection or cursor that was given a dedicated
\* executor, made after that executor has been shut down, fails with the
\* submission error and runs nowhere; connection and cursor calls alike.
C24_AfterShutdownStep == IssuedAfterShutdown(Wrappers) => SubmissionFailed

C24_NoFallbackAfterShutdown == [][C24_AfterShutdownStep]_vars

\* the same for the calls on the cursor alone
C24_CursorStep == IssuedAfterShutdown({"cur"}) => SubmissionFailed

C24_CursorCallsFail == [][C24_CursorStep]_vars

\* the cursor() calls of the variants vs that have reached the blocking
\* connection.cursor() were made from a greenlet only through a worker pool,
\* with the caller suspended until the call was done
CursorOpenedOnWorker(vs) ==
  \A c \in calls \cup {last} :
    (c.op = "cursor" /\ variant \in vs /\ ctx[c.task] = "greenlet" /\ c.n > 0)
    => /\ c.pool \in {"shared", "ded"}
       /\ c.st \in {"running", "done"} => pc[c.task] = Waiting(c.id)

\* C25: in both variants AsyncConnection.cursor() opens the blocking cursor
\* through the bridge: from a greenlet the blocking cursor() runs on a worker
\* thread with the caller suspended, never in the caller's own thread.
C25_CursorBridged == CursorOpenedOnWorker({"fd", "fdb"})

\* the same for fdb.py alone
C25_FdbCursorBridged == CursorOpenedOnWorker({"fdb"})

C26_AfterInstall ==
  (dialect.op = "do_executemany" /\ dialect.at = "done") =>
    /\ _buffered_rows = Buffer(dialect.rows)
    /\ \A d \in Descriptions :
         fd_AsyncCursor_description(d) =
           (IF dialect.description # None THEN dialect.description ELSE d)
    /\ fd_AsyncCursor_rowcount = dialect.total_rowcount

\* rowcount changes only when execute or executemany returns or when the
\* dialect stores its total, whatever the blocking cursor reports meanwhile
C26_RowcountStep ==
  fd_AsyncCursor_rowcount' # fd_AsyncCursor_rowcount =>
    \/ last'.op \in {"execute", "executemany"} /\ last'.st = "returned"
    \/ dialect.at = "loop" /\ dialect'.at = "done"

FdbCloseReturns ==
  /\ variant = "fdb"
  /\ last'.st = "returned"
  /\ last'.w = "conn"
  /\ IsClose(last'.op)

\* the pool of the connection is shut down in this step
PoolShutdownStep == ~execShutdown /\ execShutdown' /\ last'.op # "connect"

\* the pool half: a returning close leaves the owned pool shut down and
\* unreferenced, and a pool is shut down only by the return of a close whose
\* blocking close() was attempted, once per pool
C27_PoolStep ==
  /\ (FdbCloseReturns /\ last'.ex = "ded")
     => /\ execShutdown'
        /\ _executor'["conn"] = None
        /\ _executor["conn"] = "ded" => ~execShutdown
  /\ PoolShutdownStep
     => /\ FdbCloseReturns
        /\ _executor["conn"] = "ded"
        /\ last'.n = 1 \/ last'.res = Raise("RuntimeError")

C27_PoolShutdownAfterClose == [][C27_PoolStep]_vars

\* C27: in fdb.py, when close()/terminate() of the connection finishes,
\* whether the blocking close() returned or raised, the owned dedicated pool
\* has been shut down once and is no longer referenced; the pool is shut down
\* only after the blocking close() was attempted and the handle was cleared.
C27_Step ==
  /\ C27_PoolStep
  /\ PoolShutdownStep => handle'["conn"] = None

C27_ShutdownAfterCloseAndClear == [][C27_Step]_vars

\* C28: _set_buffered_rows(rows, description), from any state of the cursor,
\* makes the buffer exactly rows (whatever was buffered before), the position
\* 0 and the description snapshot description, and leaves the cached rowcount
\* and the wrapped handle as they were; the buffer and the snapshot change in
\* no other way.
C28_InstallStep ==
  /\ \A rows \in RowLists, description \in Descriptions \cup {None} :
       fd_AsyncCursor__set_buffered_rows(rows, description)
       => /\ _buffered_rows' = Buffer(rows)
          /\ _buffered_index' = 0
          /\ _buffered_description' = description
          /\ _rowcount' = _rowcount
          /\ handle' = handle
  /\ (\/ _buffered_rows' # _buffered_rows
      \/ _buffered_description' # _buffered_description)
     => /\ _buffered_rows' # NoBuffer
        /\ _buffered_index' = 0
        /\ _rowcount' = _rowcount
        /\ handle' = handle

C28_InstallReplaces == [][C28_InstallStep]_vars

\* a buffer was installed on a closed cursor whose cached rowcount is 2
C28_Witness ==
  /\ variant = "fd"
  /\ handle["cur"] = None
  /\ _rowcount = 2
  /\ _buffered_rows = Buffer(<<"r2">>)
  /\ _buffered_index = 0
  /\ _buffered_description = "d2"

\* the rows one fetch from the buffer handed out
RowsOf(f) ==
  IF IsRaise(f[2]) THEN <<>>
  ELSE IF f[2][1] = "rows" THEN f[2][2]
  ELSE IF f[2] = Ret(None) THEN <<>>
  ELSE <<f[2][2]>>

\* the rows handed out by the first n fetches since the installation
Served(n) == Concat([i \in 1..n |-> RowsOf(fetched[i])])

\* C29: after a buffer of N rows is installed, whatever fetchone(),
\* fetchmany(size >= 0) and fetchall() calls follow, the rows they returned,
\* put together in call order, are the first rows of the buffer in order (none
\* twice, none skipped), and once all N were returned every further fetch
\* returns an empty list or None.
C29_FetchPrefix ==
  (variant = "fd" /\ _buffered_rows # NoBuffer) =>
    LET rows == _buffered_rows[1]
    IN  /\ _buffered_index \in 0..Len(rows)
        /\ Served(Len(fetched)) = SubSeq(rows, 1, _buffered_index)
        /\ IsPrefix(Served(Len(fetched)), rows)
        /\ \A i \in 1..Len(fetched) :
             /\ ~IsRaise(fetched[i][2])
             /\ Len(Served(i - 1)) = Len(rows) => RowsOf(fetched[i]) = <<>>

\* two rows were installed and fetched by a fetchmany(1) and a fetchone(); the
\* fetchall() after them got nothing
C29_Witness ==
  /\ _buffered_rows = Buffer(<<"r1", "r2">>)
  /\ fetched = << <<"fetchmany", Rows(<<"r1">>)>>,
                  <<"fetchone", Ret("r2")>>,
                  <<"fetchall", Rows(<<>>)>> >>

\* the position stays within the buffer
PositionInBuffer ==
  (variant = "fd" /\ _buffered_rows # NoBuffer)
  => (0 <= _buffered_index /\ _buffered_index <= Len(_buffered_rows[1]))

\* without a new installation the position does not go back
PositionStep ==
  (_buffered_rows # NoBuffer /\ _buffered_rows' = _buffered_rows
   /\ fetched' # <<>>)
  => _buffered_index' >= _buffered_index

\* C30: with an active buffer 0 <= position <= number of buffered rows, and
\* between two installations the position never decreases, for any sequence
\* of fetchone, fetchall and fetchmany(size) with any integer size, zero and
\* negative sizes included.
C30_PositionInvariant == []PositionInBuffer /\ [][PositionStep]_vars

\* an execute() or executemany() of the firebird_driver.py cursor returns in
\* this step without raising
FdExecuteReturns ==
  /\ variant = "fd"
  /\ last'.st = "returned"
  /\ last'.w = "cur"
  /\ last'.op \in {"execute", "executemany"}
  /\ ~IsRaise(last'.res)

\* C31: the buffer belongs to the statement execution that installed it:
\* once a later execute() or executemany() of the same cursor has returned,
\* the earlier buffer and description snapshot are no longer served, so the
\* fetches and description show the live cursor.
C31_ExecuteStep ==
  FdExecuteReturns
  => /\ _buffered_rows' = NoBuffer
     /\ \A d \in Descriptions : fd_AsyncCursor_description(d)' = d

C31_BufferScopedToStatement == [][C31_ExecuteStep]_vars

\* fetches made while a buffer is installed never reach the blocking cursor,
\* also after a later execute()
C31_FetchStep ==
  (/\ variant = "fd"
   /\ _buffered_rows # NoBuffer
   /\ last'.st = "returned"
   /\ last'.op \in {"fetchone", "fetchmany", "fetchall"})
  => last'.n = 0 /\ last'.pool = "none"

C31_BufferOutlivesExecute == [][C31_FetchStep]_vars

\* do_executemany has raised: the exception of the failing call went to the
\* caller, and no execute was issued for a later parameter set
BatchRaised ==
  /\ dialect.op = "do_executemany"
  /\ dialect.at = "raised"

BatchStopped ==
  /\ IsRaise(dialect.res)
  /\ dialect.i < dialect.n
  /\ Len(dialect.did) \in {2 * dialect.i + 1, 2 * dialect.i + 2}
  /\ calls = {}

\* after the exception nothing more is issued
BatchRaisedStep == BatchRaised => (nIssued' = nIssued /\ UNCHANGED bufVars)

\* C32: when the k-th execute or fetch of the emulation raises,
\* do_executemany propagates the exception, issues no execute for the
\* parameter sets after k, and leaves the buffer, the position and the
\* description snapshot as they were before the call; here before the call
\* the cursor held the unread two-row buffer of an earlier run.
C32_NoPartialBuffer ==
  /\ [](BatchRaised =>
          /\ BatchStopped
          /\ _buffered_rows = Buffer(<<"r1", "r2">>)
          /\ _buffered_index = 0
          /\ _buffered_description = "d1")
  /\ [][BatchRaisedStep]_vars

\* the same on a cursor that had no buffer before the call
C32_FreshCursor ==
  /\ [](BatchRaised =>
          /\ BatchStopped
          /\ _buffered_rows = NoBuffer
          /\ _buffered_index = 0
          /\ _buffered_description = None)
  /\ [][BatchRaisedStep]_vars

\* the state SpecReuse starts from is one a first run leaves behind
C32_ReusedCursor ==
  /\ dialect.at = "done"
  /\ _buffered_rows = Buffer(<<"r1", "r2">>)
  /\ _buffered_index = 0
  /\ _buffered_description = "d1"
  /\ _rowcount = 2
  /\ syncRowcount = 2
  /\ calls = {}

\* the context is an insert whose compiled statement has a returning clause
InsertReturning(context) ==
  context \in {[NoContext EXCEPT !.present = TRUE, !.isinsert = TRUE,
                                 !.compiled = TRUE, !.effective_returning = TRUE]}

\* a do_executemany that did not take the emulation has come to its end
NativeEnded ==
  /\ dialect.op = "do_executemany"
  /\ ~InsertReturning(dialect.context)
  /\ dialect.at \in {"done", "raised"}

\* the executemany() of a do_executemany without emulation returns in this
\* step
NativeReturns ==
  /\ dialect'.op = "do_executemany" /\ dialect'.at = "native"
  /\ last'.st = "returned" /\ last'.op = "executemany"

\* which branch a run takes, and what the other branch leaves alone
NativeBranch ==
  dialect.op = "do_executemany" =>
    /\ InsertReturning(dialect.context) <=> dialect.at \notin {"native"} /\
         (dialect.did # <<>> => dialect.did[1][1] = "execute")
    /\ ~InsertReturning(dialect.context) =>
         /\ dialect.did = << <<"executemany", dialect.n>> >>
         /\ _buffered_rows = NoBuffer
         /\ _buffered_description = None

\* C33 as stated: do_executemany takes the emulation only for an insert with
\* a returning clause; in every other case the blocking executemany is called
\* exactly once, no buffer is installed, no single execute is issued, and
\* cursor.rowcount is -1 afterwards
C33_NativeStep ==
  NativeReturns => (last'.n = 1 /\ fd_AsyncCursor_rowcount' = -1)

C33_NativeOnce == []NativeBranch /\ [][C33_NativeStep]_vars

\* C33: do_executemany takes the emulation only for an insert with a
\* returning clause; in every other case it makes one cursor.executemany call
\* with the whole parameter sequence and nothing else, installs no buffer, and
\* on a cursor that is not closed the blocking executemany is called exactly
\* once and cursor.rowcount is -1 afterwards; on a closed cursor the blocking
\* executemany is not called, the call raises and rowcount stays as it was.
C33_OpenCursorStep ==
  NativeReturns =>
    IF last'.held
    THEN last'.n = 1 /\ fd_AsyncCursor_rowcount' = -1
    ELSE /\ last'.n = 0
         /\ last'.res = Raise("AttributeError")
         /\ fd_AsyncCursor_rowcount' = fd_AsyncCursor_rowcount

C33_NativeExecutemany == []NativeBranch /\ [][C33_OpenCursorStep]_vars

\* a do_executemany for an insert without a returning clause has returned
\* after one blocking executemany, with rowcount -1 where it was 2
C33_Witness ==
  /\ NativeEnded
  /\ dialect.at = "done"
  /\ dialect.context.isinsert /\ ~dialect.context.effective_returning
  /\ dialect.n = MaxParams
  /\ handle["cur"] # None
  /\ syncRowcount = 2
  /\ fd_AsyncCursor_rowcount = -1

\* do_execute or do_execute_no_params of firebird_driver.py has come to its
\* end
FdExecuteEnded ==
  /\ dialect.op \in {"do_execute", "do_execute_no_params"}
  /\ dialect.at \in {"done", "raised"}

\* the statement was a DDL and its execution did not raise
DdlExecuted ==
  /\ dialect.context.present /\ dialect.context.isddl
  /\ ~IsRaise(dialect.got[1])

\* C34: after do_execute or do_execute_no_params of the firebird_driver.py
\* dialect has executed a DDL statement, the dialect issues commit and then
\* begin on the driver's connection, once each, bridged from a greenlet; for
\* a statement that is no DDL or whose execution raised, no commit is issued.
C34_CommitThenBegin ==
  FdExecuteEnded =>
    IF DdlExecuted
    THEN dialect.at = "done" => dialect.did = <<"execute", "commit", "begin">>
    ELSE dialect.did = <<"execute">>

\* what the dialect does: one commit and no begin
C34_CommitAlone ==
  FdExecuteEnded =>
    IF DdlExecuted
    THEN dialect.did = <<"execute", "commit">> /\ dialect.counts[2] = 1
    ELSE dialect.did = <<"execute">>

\* the commit is bridged: from a greenlet it runs in the shared pool
C34_CommitBridgedStep ==
  (dialect.at = "committed" /\ last'.st = "returned" /\ last'.op = "commit")
  => /\ last'.pool = (IF ctx[last'.task] = "greenlet" THEN "shared" ELSE "inline")
     /\ last'.n = 1

C34_CommitBridged == [][C34_CommitBridgedStep]_vars

\* a statement-execution method of the firebird_driver.py dialect has raised
PathRaised ==
  /\ dialect.op \in {"do_execute", "do_execute_no_params", "do_executemany"}
  /\ dialect.at = "raised"

\* the exception of the blocking driver that ended the method
PathError ==
  IF dialect.op = "do_executemany" THEN dialect.res[2]
  ELSE dialect.got[Len(dialect.got)][2]

\* what the caller gets for the driver's exception e when the integrity
\* pattern is applied
Reclassified(e) ==
  IF IntegrityMessage(StrLower(ExcStr(DriverException(e))))
  THEN Raise("IntegrityError")
  ELSE Raise(e)

\* C35: on every statement-execution path of the firebird_driver.py dialect
\* (do_execute, do_execute_no_params, do_executemany native and emulated) an
\* error of the blocking layer whose message matches the integrity pattern
\* reaches the caller as IntegrityError, and every other error of the
\* blocking layer reaches the caller as the original exception.
C35_EveryPathReclassifies ==
  PathRaised => dialect.res = Reclassified(PathError)

\* what the paths do: do_execute applies the pattern, do_execute_no_params
\* and do_executemany raise the original exception whatever its message
C35_OnlyDoExecute ==
  PathRaised =>
    dialect.res = (IF dialect.op = "do_execute" THEN Reclassified(PathError)
                   ELSE Raise(PathError))

\* C36: in firebird_driver.py, also when a second close()/terminate() starts
\* on a wrapper while the first is suspended in its bridged blocking close,
\* the blocking close() is invoked at most once and the handle ends up
\* closed or in the registry, never both and never registered twice.
C36_OneTeardownInterleaved ==
  variant = "fd" =>
    \A w \in Wrappers :
      /\ closeCalls[w] <= 1
      /\ Count(_zombies, H(w)) <= 1
      /\ None \notin Range(_zombies)
      /\ (FdCloseReturned /\ last.w = w /\ last.bres = Ret(Value))
         => H(w) \notin Range(_zombies)

\* what holds under interleaving: every close returns None with the
\* reference cleared, and the blocking close() is invoked at most once for
\* each close() call that found the handle
C36_ClosesReturn ==
  variant = "fd" =>
    /\ FdCloseReturned => (last.res = Ret(None) /\ handle[last.w] = None)
    /\ \A w \in Wrappers : closeCalls[w] <= MaxCalls

\* the blocking calls that are executing
Executing == {c \in calls : c.st = "running"}

\* C37: in fdb.py a connection made in a greenlet owns a one-worker executor
\* that its AsyncConnection and all its cursors carry; every bridged call of
\* theirs is submitted to that executor, so at most one blocking call of the
\* connection and its cursors is executing at any instant, also when several
\* tasks use it at once.
C37_OneWorkerSerializes ==
  (variant = "fdb" /\ _executor["cur"] = "ded") =>
    /\ \A c \in calls : c.pool = "ded"
    /\ Cardinality(Executing) <= 1

\* what holds: a call made through a wrapper that references the executor
\* goes to it, and the executor runs one call at a time
C37_WhileReferenced ==
  variant = "fdb" =>
    /\ \A c \in calls : c.ex = "ded" => c.pool = "ded"
    /\ Cardinality({c \in Executing : c.pool = "ded"}) <= 1

\* C38: is_disconnect of the fdb dialect is total: for every driver
\* DatabaseError, with no, one, two or more args, it returns a boolean and
\* never raises; an error without an error-code slot is classified by its
\* message text alone.
C38_DisconnectTotal ==
  (/\ dialect.op = "is_disconnect"
   /\ dialect.at = "done"
   /\ dialect.exc.cls \in DatabaseErrorClasses)
  => /\ dialect.res \in {Ret("True"), Ret("False")}
     /\ Len(dialect.exc.args) < 2
        => (dialect.res = Ret("True")
            <=> MessageContains(dialect.exc, DISCONNECT_TEXT))

\* with an error-code slot the answer is a boolean
C38_TotalWithCodeSlot ==
  (/\ dialect.op = "is_disconnect"
   /\ dialect.at = "done"
   /\ dialect.exc.cls \in DatabaseErrorClasses
   /\ Len(dialect.exc.args) >= 2)
  => dialect.res \in {Ret("True"), Ret("False")}

\* C39: with worker threads that do not stall, every close()/terminate() on
\* an open firebird_driver.py cursor or connection returns, and when it has
\* returned the wrapper is CLOSED or ZOMBIE with its reference cleared; no
\* wrapper stays in CLOSING.
C39_ClosingEnds ==
  /\ \A w \in Wrappers :
       (Lifecycle(w) = "CLOSING") ~> (Lifecycle(w) \in {"CLOSED", "ZOMBIE"})
  /\ [](FdCloseReturned =>
          /\ handle[last.w] = None
          /\ Lifecycle(last.w) \in {"CLOSED", "ZOMBIE"})

\* a close() that went through the blocking close() has returned and the
\* wrapper is CLOSED
C39_Witness ==
  /\ FdCloseReturned
  /\ last.n = 1
  /\ last.bres = Ret(Value)
  /\ Lifecycle(last.w) = "CLOSED"

====
